---- MODULE Spec2Model ----
(***************************************************************************)
(* followertracker: the LSP26 relationship client (LSP26FollowerSystem),   *)
(* the aggregation built on it (getMutualConnections and its consumers),   *)
(* the bulk follow/unfollow handlers of the list components and the        *)
(* recommendation generator.                                               *)
(*                                                                         *)
(* An address is a pair <<id, casing>>: two addresses denote the same      *)
(* account exactly when their ids agree; "l" is the all-lower-case         *)
(* rendering produced by String.toLowerCase, "c" any other rendering       *)
(* (checksummed, as the RPC client returns it).                            *)
(***************************************************************************)
EXTENDS Integers, Sequences, FiniteSets, TLC

\* ------------------------------------------------------------------ bounds
MaxLen == 2        \* longest short ledger list drawn in InitAgg
MaxChanges == 1    \* ledger changes that may interleave with one run
LongLen == 51      \* length of the long ledger list (more than one page)

\* ------------------------------------------------------- program constants
PAGE_SIZE == 50

Me == 0                      \* id of the connected account, accounts[0]
SmallIds == {1, 2, 3}        \* accounts that appear in the short lists
Casings == {"l", "c"}

ToLowerCase(a) == <<a[1], "l">>

LowerSet(seq) == {ToLowerCase(seq[i]) : i \in 1..Len(seq)}

Range(seq) == {seq[i] : i \in 1..Len(seq)}

MapLower(seq) == [i \in 1..Len(seq) |-> ToLowerCase(seq[i])]

Min(a, b) == IF a < b THEN a ELSE b

Max(a, b) == IF a > b THEN a ELSE b

\* Array.prototype.slice(from, to) with 0-based, end-exclusive indices
Slice(seq, from, to) == SubSeq(seq, from + 1, Min(to, Len(seq)))

\* Array.from(new Set(seq)): first occurrences, in order
RECURSIVE Dedup(_)
Dedup(seq) ==
    IF seq = <<>> THEN <<>>
    ELSE LET front == Dedup(SubSeq(seq, 1, Len(seq) - 1))
             last == seq[Len(seq)]
         IN IF last \in Range(front) THEN front ELSE Append(front, last)

\* sequences without repeated accounts, over the given ids, up to length n
RECURSIVE DistinctSeqs(_, _, _)
DistinctSeqs(ids, cases, n) ==
    IF n = 0 THEN {<<>>}
    ELSE LET shorter == DistinctSeqs(ids, cases, n - 1)
             longest == {t \in shorter : Len(t) = n - 1}
         IN shorter \cup
            UNION {{Append(s, <<i, c>>) :
                       i \in ids \ {s[k][1] : k \in 1..Len(s)}, c \in cases} :
                   s \in longest}

LongList(n) == [i \in 1..n |-> <<i, "c">>]


\* ------------------------------------------------------------ the ledger
\* The LSP26 contract is reached through publicClient.readContract; its
\* lists are ordered and hold each account once.
VARIABLES
    ledgerFollowers,   \* id -> ordered follower list of that account
    ledgerFollowing,   \* id -> ordered following list of that account
    changes            \* ledger changes that interleaved so far

\* ------------------------------------------- LSP26FollowerSystem read calls
VARIABLES
    aggPc,           \* position of the running call
    aggOp,           \* the call that is running
    followerCount,   \* getMutualConnections: first count pair
    followingCount,
    cnt,             \* getAllFollowers / getAllFollowing: local count
    allFollowers,    \* getMutualConnections: result of getAllFollowers
    allFollowing,
    snapshot,        \* value returned by getMutualConnections
    listResult,      \* value returned by getAllFollowers / getAllFollowing
    countResult,     \* value returned by getFollowerCount / getFollowingCount
    outcome,         \* "none" | "returned" | "threw": how the call ended
    stats,           \* Dashboard: stats state set by fetchStats
    failedReads,     \* the reads of this call that were rejected (RPC error)
    rangeReverted,   \* a range read of this call was refused as out of range
    histFollowers,   \* ledger lists that existed during the call
    histFollowing

ledgerVars == <<ledgerFollowers, ledgerFollowing, changes>>

aggVars == <<aggPc, aggOp, followerCount, followingCount, cnt, allFollowers,
             allFollowing, snapshot, listResult, countResult, outcome, stats,
             failedReads, rangeReverted,
             histFollowers, histFollowing>>

\* --------------------------- bulk follow / unfollow of the list components
VARIABLES
    mutPc,       \* position of the running handler
    comp,        \* the component whose handler runs
    mode,        \* "follow" | "unfollow"
    selected,    \* the accounts the handler works on, in order
    displayed,   \* the accounts in the component's list state
    marked,      \* displayed accounts the handler has shown as followed
                 \* (unfollowed): flag flipped, or removed from the list
    txLog,       \* the mutations handed to the wallet, in order
    idx,         \* fallback loop: position in selected
    successes,   \* fallback loop: accounts whose own mutation succeeded
    report,      \* the toast that ends the handler
    flagsFrom,   \* "ledger" | "local": where the rows' relationship flags
                 \* come from, a fetch of the ledger or the handler itself
    backed       \* the row whose Follow Back button started the handler,
                 \* <<>> when Follow Selected / Unfollow Selected did

mutVars == <<mutPc, comp, mode, selected, displayed, marked, txLog, idx,
             successes, report, flagsFrom, backed>>

\* ------------------------------------ ProfileRecommendations: generation
VARIABLES
    recPc,                \* position of generateRecommendations
    accounts0,            \* accounts[0] as the wallet context renders it
    pool,                 \* addresses db.followers.getRandomProfiles can draw
    readFailures,         \* reads of this run that were rejected so far
    rAllFollowers,        \* allFollowers of generateRecommendations
    rAllFollowing,        \* allFollowing
    extendedNetwork,
    netIdx,               \* expansion loop: position in extendedNetwork
    candidateProfiles,    \* the Map, as its entries in insertion order
    sortedCandidates,
    currentFollowing,     \* the re-fetched following list
    existingFollowing,    \* generateRandomRecommendations: following list
    shuffled,             \* generateRandomRecommendations: shuffled pool
    candIdx,              \* position in sortedCandidates / shuffled
    recommendationsList,  \* the list under construction
    recommendations,      \* the component's recommendations state
    recError,             \* the component's error state
    recPath,              \* "none" | "network" | "random": who set the list
    verifiedFollowing,    \* addresses whose isFollowing check of the last
                          \* re-verification answered true
    seedReads,            \* accounts whose lists the expansion has read
    page,                 \* followerPage / followingPage of the paging loop
    listedWhileFollowed   \* accounts appended to the list while the ledger
                          \* held them in the requester's following list

recVars == <<recPc, accounts0, pool, readFailures, rAllFollowers,
             rAllFollowing, extendedNetwork, netIdx, candidateProfiles,
             sortedCandidates, currentFollowing, existingFollowing, shuffled,
             candIdx, recommendationsList, recommendations, recError, recPath,
             verifiedFollowing, seedReads, page, listedWhileFollowed>>

\* ------------------------------------- FollowerStats: statistics refresh
VARIABLES
    statPc,        \* position of fetchBlockchainStats
    store,         \* the follow_stats table: a set of rows
    tz,            \* sign of the browser's offset from UTC: -1 west, 1 east
    today,         \* the local calendar day, as a day number
    statAddress,   \* accounts[0] of the refresh
    fresh,         \* the counts getMutualConnections has just returned
    dailyChange,   \* value returned by fetchDailyChange
    shownStats,    \* the component's stats state
    statError,     \* the component's error state
    refreshes,     \* refreshes started so far
    storeBefore,   \* the table when the running refresh started
    lastWrite,     \* "none" | "skipped" | "ok" | "failed": the upsert
    storeFailures  \* store calls of the running refresh that failed

statVars == <<statPc, store, tz, today, statAddress, fresh, dailyChange,
              shownStats, statError, refreshes, storeBefore, lastWrite,
              storeFailures>>

\* ------------------------------- Dashboard: statistics of the account
VARIABLES
    dashAccount,   \* accounts[0] of the wallet context
    dashClosure,   \* accounts[0] captured by the mounted effect's
                   \* handleAccountsChanged and fetchStats
    dashStale,     \* accounts changed and the effect has not re-run yet
    dashInFlight,  \* account -> fetchStats calls for it that are running
    dashShown,     \* the account whose numbers the stats state holds
    dashSwitches,  \* account changes so far
    dashFailed     \* some fetchStats call has thrown

dashVars == <<dashAccount, dashClosure, dashStale, dashInFlight, dashShown,
              dashSwitches, dashFailed>>

\* ------------------------------------------- WalletProvider: connection
\* The provider's arrays are used through .length only; they are kept by
\* their length.
VARIABLES
    wAccounts,         \* accounts state
    wContextAccounts,  \* contextAccounts state
    wIsConnected,      \* isConnected state
    wClosure,          \* the two lengths the registered handlers captured,
                       \* the dependencies of the effect's last run
    wProvider,         \* what the wallet holds: walletClient.getAddresses()
                       \* and provider.contextAccounts
    wInitsWaiting,     \* init() calls that await getChainId / getAddresses
    wInitsRead,        \* length -> init() calls that hold this accounts
                       \* length and have not set the state yet
    wEvents,           \* provider events so far
    wInitFailures      \* init() calls that have thrown

walletVars == <<wAccounts, wContextAccounts, wIsConnected, wClosure,
                wProvider, wInitsWaiting, wInitsRead, wEvents,
                wInitFailures>>

\* ------------------------------- FollowerManagement: loading the list
VARIABLES
    fmPc,          \* "fetching" | "loaded"
    fmRequested,   \* newPage of the running fetchFollowers call
    fmFollowers,   \* addresses of the followers state, in order
    fmHasMore,     \* hasMore state
    fmPage,        \* page state
    fmFailed       \* a getFollowers read of the behaviour was rejected

loadVars == <<fmPc, fmRequested, fmFollowers, fmHasMore, fmPage, fmFailed>>

\* ----------------------------------- Followers: selection and pages
VARIABLES
    selPage,       \* currentPage state
    selShown,      \* addresses of the followers state, the rows displayed
    selFlagged,    \* addresses of the rows whose isSelected is true
    selSelected    \* selectedProfiles state, as a set

selVars == <<selPage, selShown, selFlagged, selSelected>>

\* ----------------------------------------- Following: pages of the list
VARIABLES
    pgAccount,      \* accounts[0]
    pgAll,          \* addresses of allFollowingData
    pgCurrentPage,  \* currentPage state
    pgTotalPages,   \* totalPages state
    pgFollowing,    \* addresses of the following state, the rows displayed
    pgPending,      \* a fetchFollowing call is running
    pgError,        \* the error state is set
    pgSwitches      \* account changes so far

pageVars == <<pgAccount, pgAll, pgCurrentPage, pgTotalPages, pgFollowing,
              pgPending, pgError, pgSwitches>>

\* ------------------------------------------ Home: pages and tabs
VARIABLES
    hmCurrentPage,  \* currentPage state
    hmActiveTab,    \* activeTab state
    hmIsConnected,  \* isConnected of the wallet context
    hmClicks        \* user and wallet events so far

homeVars == <<hmCurrentPage, hmActiveTab, hmIsConnected, hmClicks>>

coreVars == <<ledgerVars, aggVars, mutVars, recVars, statVars>>

uiVars == <<dashVars, walletVars, loadVars, selVars, pageVars, homeVars>>

vars == <<coreVars, uiVars>>

EmptySnapshot ==
    [allFollowers |-> <<>>, allFollowing |-> <<>>,
     mutualConnections |-> <<>>, mutualCount |-> 0]

NoStats == [followerCount |-> 0, followingCount |-> 0, mutualCount |-> 0,
            nonMutualCount |-> 0, nonFollowingBack |-> 0,
            suggestedProfiles |-> 0]

\* readContract(followerCount | followingCount): the live length, or an error
CountOutcomes(list) == {[ok |-> TRUE, n |-> Len(list)], [ok |-> FALSE, n |-> 0]}

\* readContract(getFollowersByIndex | getFollowsByIndex, start, end).
\* Inside the live list the contract returns the slice [start, end).  What it
\* does with a range that leaves the list is not fixed by the ABI: it either
\* serves the part that exists or refuses the call.
RangeOutcomes(list, start, end) ==
    IF start <= end /\ end <= Len(list)
    THEN {[ok |-> TRUE, data |-> Slice(list, start, end), why |-> "ok"],
          [ok |-> FALSE, data |-> <<>>, why |-> "rpc"]}
    ELSE {[ok |-> TRUE, data |-> Slice(list, Min(start, Len(list)), end),
           why |-> "ok"],
          [ok |-> FALSE, data |-> <<>>, why |-> "range"],
          [ok |-> FALSE, data |-> <<>>, why |-> "rpc"]}

\* getMutualConnections, lines 482-505: the value built from the two lists
MutualSnapshotBug(followers, following) ==
    LET mutual == Dedup(SelectSeq(following,
                                  LAMBDA a : a \in Range(followers)))
    IN [allFollowers |-> followers, allFollowing |-> following,
        mutualConnections |-> mutual, mutualCount |-> Len(mutual)]

MutualSnapshot(followers, following) ==
    LET followerSet == LowerSet(followers)
        mutual == Dedup(SelectSeq(MapLower(following),
                                  LAMBDA a : a \in followerSet))
    IN [allFollowers |-> followers, allFollowing |-> following,
        mutualConnections |-> mutual, mutualCount |-> Len(mutual)]

\* OneWayFollowers.fetchOneWayFollowers: followers that are not followed back
OneWayFollowerAddresses(snap) ==
    LET followingSet == LowerSet(snap.allFollowing)
    IN SelectSeq(snap.allFollowers,
                 LAMBDA a : ToLowerCase(a) \notin followingSet)

\* Following.fetchFollowing: the isMutual flag of every followed account
FollowingData(snap) ==
    LET followerSet == LowerSet(snap.allFollowers)
    IN [i \in 1..Len(snap.allFollowing) |->
          [address |-> snap.allFollowing[i],
           isMutual |-> ToLowerCase(snap.allFollowing[i]) \in followerSet]]

\* the followed accounts the Following list shows as not following back
OneWayFollowingAddresses(snap) ==
    LET data == FollowingData(snap)
    IN {data[i].address : i \in {j \in 1..Len(data) : ~data[j].isMutual}}

\* Dashboard.fetchStats, lines 109-123
DashboardStats(snap) ==
    [followerCount |-> Len(snap.allFollowers),
     followingCount |-> Len(snap.allFollowing),
     mutualCount |-> snap.mutualCount,
     nonMutualCount |-> Len(snap.allFollowers) - snap.mutualCount,
     nonFollowingBack |-> Len(snap.allFollowing) - snap.mutualCount,
     suggestedProfiles |->
        IF Len(snap.allFollowers) > 0 \/ Len(snap.allFollowing) > 0
        THEN 25 ELSE 0]

AggOps == {"fetchStats", "getAllFollowers", "getAllFollowing",
           "getFollowerCount", "getFollowingCount"}

AggLists(cases) ==
    DistinctSeqs(SmallIds, cases, MaxLen) \cup {LongList(LongLen)}

AggIdle ==
    /\ aggPc = "idle"
    /\ aggOp = "none"
    /\ followerCount = 0
    /\ followingCount = 0
    /\ cnt = 0
    /\ allFollowers = <<>>
    /\ allFollowing = <<>>
    /\ snapshot = EmptySnapshot
    /\ listResult = <<>>
    /\ countResult = 0
    /\ outcome = "none"
    /\ stats = NoStats
    /\ failedReads = {}
    /\ rangeReverted = FALSE
    /\ histFollowers = {}
    /\ histFollowing = {}

NoReport == [kind |-> "none", followed |-> -1, total |-> -1]

MutIdle ==
    /\ mutPc = "idle"
    /\ comp = "none"
    /\ mode = "none"
    /\ selected = <<>>
    /\ displayed = {}
    /\ marked = {}
    /\ txLog = <<>>
    /\ idx = 0
    /\ successes = <<>>
    /\ report = NoReport
    /\ flagsFrom = "ledger"
    /\ backed = <<>>

RecIdle ==
    /\ recPc = "idle"
    /\ accounts0 = <<Me, "c">>
    /\ pool = {}
    /\ readFailures = 0
    /\ rAllFollowers = <<>>
    /\ rAllFollowing = <<>>
    /\ extendedNetwork = <<>>
    /\ netIdx = 0
    /\ candidateProfiles = <<>>
    /\ sortedCandidates = <<>>
    /\ currentFollowing = <<>>
    /\ existingFollowing = <<>>
    /\ shuffled = <<>>
    /\ candIdx = 0
    /\ recommendationsList = <<>>
    /\ recommendations = <<>>
    /\ recError = "none"
    /\ recPath = "none"
    /\ verifiedFollowing = {}
    /\ seedReads = {}
    /\ page = 0
    /\ listedWhileFollowed = {}

NoCounts == [followerCount |-> 0, followingCount |-> 0, mutualCount |-> 0]

NoShownStats == [followerCount |-> -1, followingCount |-> -1,
                 mutualCount |-> -1, dailyChange |-> 0]

StatIdle ==
    /\ statPc = "idle"
    /\ store = {}
    /\ tz = 0
    /\ today = 1
    /\ statAddress = <<Me, "c">>
    /\ fresh = NoCounts
    /\ dailyChange = 0
    /\ shownStats = NoShownStats
    /\ statError = "none"
    /\ refreshes = 0
    /\ storeBefore = {}
    /\ lastWrite = "none"
    /\ storeFailures = {}

LedgerIdle ==
    /\ ledgerFollowers = [i \in {Me} |-> <<>>]
    /\ ledgerFollowing = [i \in {Me} |-> <<>>]
    /\ changes = 0

CoreIdle == LedgerIdle /\ AggIdle /\ MutIdle /\ RecIdle /\ StatIdle

DashIdle ==
    /\ dashAccount = Me
    /\ dashClosure = Me
    /\ dashStale = FALSE
    /\ dashInFlight = [a \in {Me} |-> 0]
    /\ dashShown = -1
    /\ dashSwitches = 0
    /\ dashFailed = FALSE

Lens == {0, 1}

WalletIdle ==
    /\ wAccounts = 0
    /\ wContextAccounts = 0
    /\ wIsConnected = FALSE
    /\ wClosure = [accounts |-> 0, contextAccounts |-> 0]
    /\ wProvider = [accounts |-> 0, contextAccounts |-> 0]
    /\ wInitsWaiting = 0
    /\ wInitsRead = [n \in Lens |-> 0]
    /\ wEvents = 0
    /\ wInitFailures = 0

LoadIdle ==
    /\ fmPc = "loaded"
    /\ fmRequested = 0
    /\ fmFollowers = <<>>
    /\ fmHasMore = TRUE
    /\ fmPage = 0
    /\ fmFailed = FALSE

SelIdle ==
    /\ selPage = 1
    /\ selShown = <<>>
    /\ selFlagged = {}
    /\ selSelected = {}

PageIdle ==
    /\ pgAccount = Me
    /\ pgAll = <<>>
    /\ pgCurrentPage = 1
    /\ pgTotalPages = 1
    /\ pgFollowing = <<>>
    /\ pgPending = FALSE
    /\ pgError = FALSE
    /\ pgSwitches = 0

HomeIdle ==
    /\ hmCurrentPage = "home"
    /\ hmActiveTab = "dashboard"
    /\ hmIsConnected = FALSE
    /\ hmClicks = 0

UiIdle == DashIdle /\ WalletIdle /\ LoadIdle /\ SelIdle /\ PageIdle /\ HomeIdle

InitAgg ==
    /\ UiIdle
    /\ \E f \in AggLists({"c"}), g \in AggLists(Casings) :
          /\ ledgerFollowers = [i \in {Me} |-> f]
          /\ ledgerFollowing = [i \in {Me} |-> g]
    /\ changes = 0
    /\ AggIdle
    /\ MutIdle
    /\ RecIdle
    /\ StatIdle

\* a call starts: Dashboard mounts or refreshes (fetchStats), or a component
\* calls one of the client's read methods
StartCall(op) ==
    /\ aggPc = "idle"
    /\ aggOp' = op
    /\ aggPc' = CASE op = "fetchStats" -> "mc_followerCount"
                  [] op = "getAllFollowers" -> "gaf_count"
                  [] op = "getAllFollowing" -> "gag_count"
                  [] OTHER -> "count"
    /\ followerCount' = 0
    /\ followingCount' = 0
    /\ cnt' = 0
    /\ allFollowers' = <<>>
    /\ allFollowing' = <<>>
    /\ outcome' = "none"
    /\ failedReads' = {}
    /\ rangeReverted' = FALSE
    /\ histFollowers' = {ledgerFollowers[Me]}
    /\ histFollowing' = {ledgerFollowing[Me]}
    /\ snapshot' = EmptySnapshot
    /\ listResult' = <<>>
    /\ countResult' = 0
    /\ UNCHANGED <<mutVars, recVars, statVars, stats, ledgerVars, uiVars>>

\* getFollowerCount / getFollowingCount called on their own (lines 338-367):
\* the catch block returns 0
GetCount ==
    /\ aggPc = "count"
    /\ \E r \in CountOutcomes(IF aggOp = "getFollowerCount"
                              THEN ledgerFollowers[Me]
                              ELSE ledgerFollowing[Me]) :
          /\ countResult' = r.n
          /\ failedReads' = (IF r.ok THEN {} ELSE {"count"})
    /\ outcome' = "returned"
    /\ aggPc' = "done"
    /\ UNCHANGED <<mutVars, recVars, statVars, aggOp, followerCount, followingCount, cnt, allFollowers,
                   allFollowing, snapshot, listResult, stats, rangeReverted, histFollowers,
                   histFollowing, ledgerVars, uiVars>>


\* getMutualConnections, lines 462-465: the follower count of the first
\* Promise.all; a rejected read is caught inside getFollowerCount and is 0
MC_FollowerCount ==
    /\ aggPc = "mc_followerCount"
    /\ \E r \in CountOutcomes(ledgerFollowers[Me]) :
          /\ followerCount' = r.n
          /\ failedReads' = failedReads \cup (IF r.ok THEN {} ELSE {"mc_followerCount"})
    /\ aggPc' = "mc_followingCount"
    /\ UNCHANGED <<mutVars, recVars, statVars, aggOp, followingCount, cnt, allFollowers, allFollowing,
                   snapshot, listResult, countResult, outcome, stats,
                   rangeReverted,
                   histFollowers, histFollowing, ledgerVars, uiVars>>

\* what fetchStats does with the value getMutualConnections resolved to
\* (Dashboard.tsx lines 92-125)
SetStats(snap) == DashboardStats(snap)

\* getMutualConnections, lines 462-474: the following count, then the early
\* return of the empty snapshot when either count is 0
MC_FollowingCount ==
    /\ aggPc = "mc_followingCount"
    /\ \E r \in CountOutcomes(ledgerFollowing[Me]) :
          /\ followingCount' = r.n
          /\ failedReads' = failedReads \cup (IF r.ok THEN {} ELSE {"mc_followingCount"})
          /\ IF followerCount = 0 \/ r.n = 0
             THEN /\ snapshot' = EmptySnapshot
                  /\ outcome' = "returned"
                  /\ stats' = SetStats(EmptySnapshot)
                  /\ aggPc' = "done"
             ELSE /\ aggPc' = "gaf_count"
                  /\ UNCHANGED <<snapshot, outcome, stats>>
    /\ UNCHANGED <<mutVars, recVars, statVars, aggOp, followerCount, cnt, allFollowers, allFollowing,
                   listResult, countResult, rangeReverted, histFollowers,
                   histFollowing, ledgerVars, uiVars>>

\* getAllFollowers / getAllFollowing: the end index of their single range
\* read is the count just read (lines 422 and 443)
AllRangeEndPaged(count) == Min(count, PAGE_SIZE)

AllRangeEnd(count) == count

\* getAllFollowers, lines 414-415: the count read and the return of [] on 0
GAF_Count ==
    /\ aggPc = "gaf_count"
    /\ \E r \in CountOutcomes(ledgerFollowers[Me]) :
          /\ cnt' = r.n
          /\ failedReads' = failedReads \cup (IF r.ok THEN {} ELSE {"gaf_count"})
          /\ IF r.n # 0
             THEN /\ aggPc' = "gaf_range"
                  /\ UNCHANGED <<allFollowers, listResult, outcome>>
             ELSE IF aggOp = "getAllFollowers"
             THEN /\ listResult' = <<>>
                  /\ outcome' = "returned"
                  /\ aggPc' = "done"
                  /\ UNCHANGED allFollowers
             ELSE /\ allFollowers' = <<>>
                  /\ aggPc' = "gag_count"
                  /\ UNCHANGED <<listResult, outcome>>
    /\ UNCHANGED <<mutVars, recVars, statVars, aggOp, followerCount, followingCount, allFollowing,
                   snapshot, countResult, stats, rangeReverted, histFollowers,
                   histFollowing, ledgerVars, uiVars>>

\* getAllFollowers, lines 418-429: one range read [0, followerCount); a
\* rejected read is caught and [] is returned
GAF_Range ==
    /\ aggPc = "gaf_range"
    /\ \E r \in RangeOutcomes(ledgerFollowers[Me], 0, AllRangeEnd(cnt)) :
          /\ failedReads' = failedReads \cup (IF r.why = "rpc" THEN {"gaf_range"} ELSE {})
          /\ rangeReverted' = (rangeReverted \/ r.why = "range")
          /\ IF aggOp = "getAllFollowers"
             THEN /\ listResult' = r.data
                  /\ outcome' = "returned"
                  /\ aggPc' = "done"
                  /\ UNCHANGED allFollowers
             ELSE /\ allFollowers' = r.data
                  /\ aggPc' = "gag_count"
                  /\ UNCHANGED <<listResult, outcome>>
    /\ UNCHANGED <<mutVars, recVars, statVars, aggOp, followerCount, followingCount, cnt, allFollowing,
                   snapshot, countResult, stats, histFollowers, histFollowing, ledgerVars, uiVars>>

\* getAllFollowing, lines 435-436, and for fetchStats the rest of
\* getMutualConnections once both lists are there (lines 482-505)
GAG_Count ==
    /\ aggPc = "gag_count"
    /\ \E r \in CountOutcomes(ledgerFollowing[Me]) :
          /\ cnt' = r.n
          /\ failedReads' = failedReads \cup (IF r.ok THEN {} ELSE {"gag_count"})
          /\ IF r.n # 0
             THEN /\ aggPc' = "gag_range"
                  /\ UNCHANGED <<allFollowing, listResult, outcome, snapshot,
                                 stats>>
             ELSE IF aggOp = "getAllFollowing"
             THEN /\ listResult' = <<>>
                  /\ outcome' = "returned"
                  /\ aggPc' = "done"
                  /\ UNCHANGED <<allFollowing, snapshot, stats>>
             ELSE /\ allFollowing' = <<>>
                  /\ snapshot' = MutualSnapshot(allFollowers, <<>>)
                  /\ stats' = SetStats(MutualSnapshot(allFollowers, <<>>))
                  /\ outcome' = "returned"
                  /\ aggPc' = "done"
                  /\ UNCHANGED listResult
    /\ UNCHANGED <<mutVars, recVars, statVars, aggOp, followerCount, followingCount, allFollowers,
                   countResult, rangeReverted, histFollowers, histFollowing, ledgerVars, uiVars>>

\* getAllFollowing, lines 439-450, and for fetchStats the rest of
\* getMutualConnections (lines 482-505) and of fetchStats
GAG_Range ==
    /\ aggPc = "gag_range"
    /\ \E r \in RangeOutcomes(ledgerFollowing[Me], 0, AllRangeEnd(cnt)) :
          /\ failedReads' = failedReads \cup (IF r.why = "rpc" THEN {"gag_range"} ELSE {})
          /\ rangeReverted' = (rangeReverted \/ r.why = "range")
          /\ IF aggOp = "getAllFollowing"
             THEN /\ listResult' = r.data
                  /\ UNCHANGED <<allFollowing, snapshot, stats>>
             ELSE /\ allFollowing' = r.data
                  /\ snapshot' = MutualSnapshot(allFollowers, r.data)
                  /\ stats' = SetStats(MutualSnapshot(allFollowers, r.data))
                  /\ UNCHANGED listResult
    /\ outcome' = "returned"
    /\ aggPc' = "done"
    /\ UNCHANGED <<mutVars, recVars, statVars, aggOp, followerCount, followingCount, cnt, allFollowers,
                   countResult,
                   histFollowers, histFollowing, ledgerVars, uiVars>>

\* ------------------------------------------------ the ledger changes
\* Other users follow or unfollow the account, and the account itself may
\* follow or unfollow from another session, while a call is running.
RemoveAt(seq, i) == SubSeq(seq, 1, i - 1) \o SubSeq(seq, i + 1, Len(seq))

\* removal by moving the last entry into the gap
SwapRemove(seq, i) ==
    IF i = Len(seq) THEN SubSeq(seq, 1, Len(seq) - 1)
    ELSE [k \in 1..(Len(seq) - 1) |-> IF k = i THEN seq[Len(seq)] ELSE seq[k]]

Removals(seq) ==
    {RemoveAt(seq, i) : i \in {1, Len(seq)}} \cup
    {SwapRemove(seq, i) : i \in {1, Len(seq)}}

Newcomers(seq) == {a \in SmallIds \X {"c"} : a[1] \notin {seq[k][1] : k \in 1..Len(seq)}}

AggRunning == aggPc \notin {"idle", "done"}

LedgerFollowerJoins ==
    /\ AggRunning
    /\ changes < MaxChanges
    /\ \E a \in Newcomers(ledgerFollowers[Me]) :
          ledgerFollowers' = [ledgerFollowers EXCEPT ![Me] = Append(@, a)]
    /\ histFollowers' = histFollowers \cup {ledgerFollowers'[Me]}
    /\ changes' = changes + 1
    /\ UNCHANGED <<mutVars, recVars, statVars, ledgerFollowing, aggPc, aggOp, followerCount,
                   followingCount, cnt, allFollowers, allFollowing, snapshot,
                   listResult, countResult, outcome, stats, failedReads,
                   rangeReverted,
                   histFollowing, uiVars>>

LedgerFollowerLeaves ==
    /\ AggRunning
    /\ changes < MaxChanges
    /\ ledgerFollowers[Me] # <<>>
    /\ \E l \in Removals(ledgerFollowers[Me]) :
          ledgerFollowers' = [ledgerFollowers EXCEPT ![Me] = l]
    /\ histFollowers' = histFollowers \cup {ledgerFollowers'[Me]}
    /\ changes' = changes + 1
    /\ UNCHANGED <<mutVars, recVars, statVars, ledgerFollowing, aggPc, aggOp, followerCount,
                   followingCount, cnt, allFollowers, allFollowing, snapshot,
                   listResult, countResult, outcome, stats, failedReads,
                   rangeReverted,
                   histFollowing, uiVars>>

LedgerFollowingGrows ==
    /\ AggRunning
    /\ changes < MaxChanges
    /\ \E a \in Newcomers(ledgerFollowing[Me]) :
          ledgerFollowing' = [ledgerFollowing EXCEPT ![Me] = Append(@, a)]
    /\ histFollowing' = histFollowing \cup {ledgerFollowing'[Me]}
    /\ changes' = changes + 1
    /\ UNCHANGED <<mutVars, recVars, statVars, ledgerFollowers, aggPc, aggOp, followerCount,
                   followingCount, cnt, allFollowers, allFollowing, snapshot,
                   listResult, countResult, outcome, stats, failedReads,
                   rangeReverted,
                   histFollowers, uiVars>>

LedgerFollowingShrinks ==
    /\ AggRunning
    /\ changes < MaxChanges
    /\ ledgerFollowing[Me] # <<>>
    /\ \E l \in Removals(ledgerFollowing[Me]) :
          ledgerFollowing' = [ledgerFollowing EXCEPT ![Me] = l]
    /\ histFollowing' = histFollowing \cup {ledgerFollowing'[Me]}
    /\ changes' = changes + 1
    /\ UNCHANGED <<mutVars, recVars, statVars, ledgerFollowers, aggPc, aggOp, followerCount,
                   followingCount, cnt, allFollowers, allFollowing, snapshot,
                   listResult, countResult, outcome, stats, failedReads,
                   rangeReverted,
                   histFollowers, uiVars>>

NextAgg ==
    \/ \E op \in AggOps : StartCall(op)
    \/ GetCount
    \/ MC_FollowerCount
    \/ MC_FollowingCount
    \/ GAF_Count
    \/ GAF_Range
    \/ GAG_Count
    \/ GAG_Range
    \/ LedgerFollowerJoins
    \/ LedgerFollowerLeaves
    \/ LedgerFollowingGrows
    \/ LedgerFollowingShrinks

SpecAgg == InitAgg /\ [][NextAgg]_vars


\* ------------------------------------------- bulk follow / unfollow
\* handleFollowSelected / handleUnfollowSelected of Followers,
\* OneWayFollowers (follow only) and FollowerManagement, with followMany /
\* unfollowMany and follow / unfollow of LSP26FollowerSystem.
MAX_BATCH_SIZE == 50

pageSize == 25     \* rows of one page of Followers / OneWayFollowers

MaxSel == 51       \* size of the large selection

SelSizes == {1, 2, 3, MaxSel}

\* accounts for which the wallet may decline or fail an individual mutation
FlakyIds == SmallIds

Components == {"Followers", "OneWayFollowers", "FollowerManagement"}

TxOutcomes == {"ok", "rejected", "failed"}

IndividualOutcomes(a) == IF a[1] \in FlakyIds THEN TxOutcomes ELSE {"ok"}

\* followMany / unfollowMany, lines 633-636 and 688-691: the slice to the
\* first MAX_BATCH_SIZE addresses
Truncate(targets) ==
    IF Len(targets) > MAX_BATCH_SIZE THEN Slice(targets, 0, MAX_BATCH_SIZE)
    ELSE targets

\* the argument the handler passes to followMany / unfollowMany:
\* FollowerManagement slices to 50 itself, the other two pass the selection
BatchArg(c, addresses) ==
    IF c = "FollowerManagement" /\ Len(addresses) > MAX_BATCH_SIZE
    THEN Slice(addresses, 0, MAX_BATCH_SIZE)
    ELSE addresses

\* the accounts a resolved batch call is taken to have processed:
\* FollowerManagement marks index < MAX_BATCH_SIZE only (lines 215-218 and
\* 222), the other two take the whole selection (selectedProfiles.includes)
BatchSucceeded(c, addresses) ==
    IF c = "FollowerManagement" THEN Slice(addresses, 0, MAX_BATCH_SIZE)
    ELSE addresses

\* toast after a run of individual mutations in Followers / OneWayFollowers
\* (Followers.tsx lines 381-386, 1006-1009)
CountedReport(k, n) ==
    IF k > 0 THEN [kind |-> "success", followed |-> k, total |-> n]
    ELSE [kind |-> "error", followed |-> -1, total |-> -1]

\* toast that ends the FollowerManagement handler (lines 264-268, 363-367)
ManagementReport(k, n) ==
    IF k = n THEN [kind |-> "success", followed |-> k, total |-> n]
    ELSE [kind |-> "error", followed |-> k, total |-> n]

\* toast after a resolved batch or single call in Followers / OneWayFollowers
\* (lines 356 and 403): the length of the selection
SelectionReport(n) == [kind |-> "success", followed |-> n, total |-> n]

\* toast of the outer catch (lines 405-408)
FailedReport == [kind |-> "error", followed |-> -1, total |-> -1]

\* the for loop over the selection with its inner try / catch (Followers.tsx
\* lines 363-379): the loop goes on to the next account whatever happened
NextIndexAbort(i, out, n) == IF out = "ok" THEN i + 1 ELSE n + 1

NextIndex(i, out, n) == i + 1

Tx(kind, targets) == [kind |-> kind, targets |-> targets, result |-> "pending"]

SingleTxs(addresses) ==
    [i \in 1..Len(addresses) |-> Tx("single", <<addresses[i]>>)]

Resolve(log, i, out) == [log EXCEPT ![i].result = out]

\* accounts whose mutation the wallet accepted
OnChain ==
    UNION {Range(txLog[i].targets) :
              i \in {j \in 1..Len(txLog) : txLog[j].result = "ok"}}

Selection(n) == [i \in 1..n |-> <<i, "c">>]

\* the rows the component holds: FollowerManagement keeps every loaded
\* follower, the other two one page of pageSize rows
Rows(c, sel, window) ==
    IF c = "FollowerManagement" THEN Range(sel)
    ELSE IF window = "first" THEN Range(Slice(sel, 0, pageSize))
    ELSE Range(Slice(sel, Max(0, Len(sel) - pageSize), Len(sel)))

\* the requester's following list when the handler starts: the accounts to
\* unfollow are followed; of the accounts to follow, none or the first one
\* has been followed since the rows were fetched
FollowedAtClick(m, sel) ==
    IF m = "unfollow" THEN {sel}
    ELSE IF sel = <<>> THEN {<<>>}
    ELSE {<<>>, <<sel[1]>>}

\* OneWayFollowers may also start with nothing selected
SelSizesOf(c) == IF c = "OneWayFollowers" THEN SelSizes \cup {0} ELSE SelSizes

\* a row of the OneWayFollowers page that is not selected, when the page
\* has room for one
UnselectedRows(c, n) ==
    IF c = "OneWayFollowers" /\ n < pageSize THEN {<<n + 1, "c">>} ELSE {}

InitMut ==
    /\ UiIdle
    /\ AggIdle
    /\ RecIdle
    /\ StatIdle
    /\ changes = 0
    /\ mutPc = "ready"
    /\ comp \in Components
    /\ mode \in IF comp = "OneWayFollowers" THEN {"follow"}
                ELSE {"follow", "unfollow"}
    /\ \E n \in SelSizesOf(comp), window \in {"first", "last"} :
          /\ selected = Selection(n)
          /\ displayed = Rows(comp, Selection(n), window)
                           \cup UnselectedRows(comp, n)
          /\ ledgerFollowers = [i \in {Me} |-> Selection(n)]
          /\ \E g \in FollowedAtClick(mode, Selection(n)) :
                ledgerFollowing = [i \in {Me} |-> g]
    /\ marked = {}
    /\ txLog = <<>>
    /\ idx = 0
    /\ successes = <<>>
    /\ report = NoReport
    /\ flagsFrom = "ledger"
    /\ backed = <<>>

\* the user presses Follow Selected / Unfollow Selected: a selection of one
\* account goes to follow / unfollow, a larger one to followMany /
\* unfollowMany, which truncates its argument
Click ==
    /\ mutPc = "ready"
    /\ selected # <<>>
    /\ IF Len(selected) = 1
       THEN /\ txLog' = <<Tx("single", selected)>>
            /\ mutPc' = "single"
       ELSE /\ txLog' = <<Tx("batch", Truncate(BatchArg(comp, selected)))>>
            /\ mutPc' = "batch"
    /\ UNCHANGED <<backed, comp, mode, selected, displayed, marked, idx, successes,
                   report, flagsFrom, ledgerVars, aggVars, recVars, statVars, uiVars>>

\* OneWayFollowers, the Follow Back button of a row that is not selected
\* (Followers.tsx lines 1273-1284): toggleSelect(address) and
\* setSelectedProfiles([address]) queue state updates, and
\* handleFollowSelected() runs at once with the selectedProfiles of the
\* render the button belongs to
FollowBack ==
    /\ mutPc = "ready"
    /\ comp = "OneWayFollowers"
    /\ \E address \in displayed \ Range(selected) : backed' = address
    /\ IF Len(selected) = 0
       THEN /\ txLog' = <<>>
            /\ report' = FailedReport
            /\ mutPc' = "done"
       ELSE /\ report' = report
            /\ IF Len(selected) = 1
               THEN /\ txLog' = <<Tx("single", selected)>>
                    /\ mutPc' = "single"
               ELSE /\ txLog' = <<Tx("batch", Truncate(BatchArg(comp, selected)))>>
                    /\ mutPc' = "batch"
    /\ UNCHANGED <<comp, mode, selected, displayed, marked, idx, successes,
                   flagsFrom, ledgerVars, aggVars, recVars, statVars, uiVars>>

\* the single follow / unfollow resolves or throws
SingleResolve ==
    /\ mutPc = "single"
    /\ \E out \in TxOutcomes :
          /\ txLog' = Resolve(txLog, 1, out)
          /\ IF out = "ok"
             THEN /\ marked' = displayed \cap Range(selected)
                  /\ flagsFrom' = "local"
                  /\ report' = IF comp = "FollowerManagement"
                               THEN ManagementReport(1, 1)
                               ELSE SelectionReport(1)
             ELSE /\ marked' = marked
                  /\ flagsFrom' = flagsFrom
                  /\ report' = IF comp = "FollowerManagement"
                               THEN ManagementReport(0, 1)
                               ELSE FailedReport
    /\ mutPc' = "done"
    /\ UNCHANGED <<backed, comp, mode, selected, displayed, idx, successes,
                   ledgerVars, aggVars, recVars, statVars, uiVars>>

\* followMany / unfollowMany resolves, or throws and the catch block starts
\* the individual mutations: the first of them in Followers and
\* OneWayFollowers (for ... await), all of them at once in
\* FollowerManagement (map + Promise.all)
BatchResolve ==
    /\ mutPc = "batch"
    /\ \E out \in TxOutcomes :
          IF out = "ok"
          THEN /\ txLog' = Resolve(txLog, 1, out)
               /\ marked' = displayed \cap Range(BatchSucceeded(comp, selected))
               /\ flagsFrom' = "local"
               /\ report' =
                    IF comp = "FollowerManagement"
                    THEN ManagementReport(Len(BatchSucceeded(comp, selected)),
                                          Len(selected))
                    ELSE SelectionReport(Len(selected))
               /\ mutPc' = "done"
               /\ idx' = idx
          ELSE /\ txLog' = Resolve(txLog, 1, out) \o
                    (IF comp = "FollowerManagement"
                     THEN SingleTxs(selected)
                     ELSE SingleTxs(<<selected[1]>>))
               /\ mutPc' = "fallback"
               /\ idx' = 1
               /\ UNCHANGED <<marked, report, flagsFrom>>
    /\ UNCHANGED <<backed, comp, mode, selected, displayed, successes, ledgerVars,
                   aggVars, recVars, statVars, uiVars>>

\* the individual mutation of selected[idx] resolves or throws; the loop goes
\* on, and after the last account the handler updates its rows and toasts
FallbackResolve ==
    /\ mutPc = "fallback"
    /\ idx <= Len(selected)
    /\ \E out \in IndividualOutcomes(selected[idx]) :
          LET next == NextIndex(idx, out, Len(selected))
              succ == IF out = "ok" THEN Append(successes, selected[idx])
                      ELSE successes
              log == Resolve(txLog, idx + 1, out)
          IN /\ successes' = succ
             /\ idx' = next
             /\ IF next <= Len(selected)
                THEN /\ txLog' = IF comp = "FollowerManagement" THEN log
                                 ELSE Append(log, Tx("single",
                                                     <<selected[next]>>))
                     /\ marked' = IF comp = "Followers"
                                  THEN displayed \cap Range(succ)
                                  ELSE marked
                     /\ UNCHANGED <<mutPc, report>>
                ELSE /\ txLog' = log
                     /\ marked' = displayed \cap Range(succ)
                     /\ report' = IF comp = "FollowerManagement"
                                  THEN ManagementReport(Len(succ),
                                                        Len(selected))
                                  ELSE CountedReport(Len(succ), Len(selected))
                     /\ mutPc' = "done"
             /\ flagsFrom' = IF marked' # marked THEN "local" ELSE flagsFrom
    /\ UNCHANGED <<backed, comp, mode, selected, displayed, ledgerVars, aggVars, recVars, statVars, uiVars>>

\* handleRefresh (the Refresh button): the rows are fetched again from the
\* ledger.  No handler calls it; the user may.
Refresh ==
    /\ mutPc = "done"
    /\ marked' = displayed \cap OnChain
    /\ flagsFrom' = "ledger"
    /\ mutPc' = "refreshed"
    /\ UNCHANGED <<backed, comp, mode, selected, displayed, txLog, idx, successes,
                   report, ledgerVars, aggVars, recVars, statVars, uiVars>>

NextMut ==
    \/ Click
    \/ FollowBack
    \/ SingleResolve
    \/ BatchResolve
    \/ FallbackResolve
    \/ Refresh

SpecMut == InitMut /\ [][NextMut]_vars

\* ------------------------------------------ recommendation generation
\* ProfileRecommendations.generateRecommendations and
\* generateRandomRecommendations.  Every await of a client read is one step;
\* getFollowers / getFollowing (count read, then range read) are taken as
\* one read of the ledger.
batchSize == 100          \* page length the paging loops expect

NetworkSlice == 20        \* entries taken from each of the three lists

TopCandidates == 50       \* candidates kept after sorting

MinNetworkRecs == 5       \* fewer network recommendations: random path

TargetCount == 25         \* random path stops at this many

RandomPoolLimit == 150    \* limit passed to getRandomProfiles

ShuffleLimit == 50        \* shuffled pool entries looked at

RecencyBonus == 6         \* Math.round(20 * recentActivityWeight)

MaxReadFailures == 1      \* reads of one run that may be rejected

RecIds == 0..Max(9, LongLen)

\* Math.floor(Math.random() * 36) + 60 ranges over 60..95; the ends are drawn
RandomScores == {60, 95}

MaxDrawn == 3       \* entries of one loop whose score is drawn from both ends

\* the values Math.random() yields for the entry at position i of a loop
Draws(i) == IF i <= MaxDrawn THEN RandomScores ELSE {60}

\* the account whose following list the client may hand back in lower case
\* (the lists are typed `0x${string}`[], which fixes no casing)
LowerSeed == 2

\* accounts the requester may start to follow while a run is in progress
LateFollowIds == {3}

Addr(i) == <<i, "c">>

\* the ledger list of a set of accounts, in ascending order of id
RECURSIVE ListOf(_)
ListOf(S) ==
    IF S = {} THEN <<>>
    ELSE LET m == CHOOSE x \in S : \A y \in S : x <= y
         IN <<Addr(m)>> \o ListOf(S \ {m})

\* getFollowers / getFollowing (supabase.ts lines 370-409) over one ledger
\* state: [] for an empty list, otherwise the range
\* [startIndex, min(startIndex + PAGE_SIZE, count)), which is refused or
\* empty when startIndex lies beyond the count
GetPage(list, startIndex) ==
    LET count == Len(list)
        endIndex == Min(startIndex + PAGE_SIZE, count)
    IN IF count = 0 \/ endIndex <= startIndex THEN <<>>
       ELSE Slice(list, startIndex, endIndex)

\* the same with the catch block: a rejected read gives []
PageRead(list, startIndex, ok) == IF ok THEN GetPage(list, startIndex) ELSE <<>>

\* isFollowing (lines 518-531): the ledger's answer, false when rejected
IsFollowingRead(following, target, ok) ==
    ok /\ target[1] \in {following[i][1] : i \in 1..Len(following)}

ReadOks == IF readFailures < MaxReadFailures THEN {TRUE, FALSE} ELSE {TRUE}

Failed(ok) == IF ok THEN readFailures ELSE readFailures + 1

\* the condition of the paging loops: another page is fetched when the
\* batch has exactly batchSize entries
HasMore(batch) == Len(batch) = batchSize

\* lines 324-340 and 345-361: one pass over a seed's list
Skips(potentialAddress, me, followingSet) ==
    \/ ToLowerCase(potentialAddress) = ToLowerCase(me)
    \/ ToLowerCase(potentialAddress) \in followingSet

RECURSIVE Accumulate(_, _, _, _, _)
Accumulate(cands, potentials, networkAddress, me, followingSet) ==
    IF potentials = <<>> THEN cands
    ELSE LET p == Head(potentials)
             pos == {i \in 1..Len(cands) : cands[i].address = p}
             upd ==
               IF pos = {}
               THEN Append(cands, [address |-> p, mutualCount |-> 1,
                                   sources |-> <<networkAddress>>])
               ELSE LET i == CHOOSE k \in pos : TRUE
                    IN [cands EXCEPT ![i] =
                          [address |-> p,
                           mutualCount |-> @.mutualCount + 1,
                           sources |->
                             IF networkAddress \in Range(@.sources)
                             THEN @.sources
                             ELSE Append(@.sources, networkAddress)]]
         IN Accumulate(IF Skips(p, me, followingSet) THEN cands ELSE upd,
                       Tail(potentials), networkAddress, me, followingSet)

\* lines 300-302
MutualFollowers(followers, following) ==
    SelectSeq(followers, LAMBDA a : ToLowerCase(a) \in LowerSet(following))

\* lines 310-314
ExtendedNetwork(followers, following) ==
    Slice(MutualFollowers(followers, following), 0, NetworkSlice)
      \o Slice(followers, 0, NetworkSlice)
      \o Slice(following, 0, NetworkSlice)

\* Array.prototype.sort with (a, b) => b.mutualCount - a.mutualCount: stable
RECURSIVE SortDesc(_)
SortDesc(seq) ==
    IF seq = <<>> THEN <<>>
    ELSE LET rest == SortDesc(SubSeq(seq, 1, Len(seq) - 1))
             x == seq[Len(seq)]
             k == Cardinality({i \in 1..Len(rest) :
                                  rest[i].mutualCount >= x.mutualCount})
         IN SubSeq(rest, 1, k) \o <<x>> \o SubSeq(rest, k + 1, Len(rest))

\* lines 376-378
SortedCandidates(cands) == Slice(SortDesc(cands), 0, TopCandidates)

\* Math.round(a / b) for a >= 0, b > 0
RoundDiv(a, b) == (2 * a + b) \div (2 * b)

\* lines 439-452
Reason(mutualCount, networkLen) ==
    LET mutualFollowerPercent == RoundDiv(mutualCount * 100, networkLen)
    IN IF mutualFollowerPercent > 70 THEN "highly popular"
       ELSE IF mutualFollowerPercent > 50 THEN "popular"
       ELSE IF mutualFollowerPercent > 30 THEN "several mutual"
       ELSE IF mutualCount > 0 THEN "followed by connections"
       ELSE "growing profile"

\* lines 459-470.  sortedCandidates.indexOf([address, data]) looks for a
\* freshly built array and is -1, so isRecentProfile is true for every
\* candidate.
WeightedScore(mutualCount, networkLen, hasMutual, random) ==
    LET base == IF hasMutual THEN RoundDiv(mutualCount * 70, networkLen)
                ELSE random
    IN Min(98, Max(50, base + RecencyBonus))

\* lines 488-495
NetworkRec(c, networkLen, hasMutual, random) ==
    [address |-> c.address,
     score |-> WeightedScore(c.mutualCount, networkLen, hasMutual, random),
     reason |-> Reason(c.mutualCount, networkLen),
     mutualFollowers |-> c.mutualCount,
     mutualFollowerSources |-> Slice(c.sources, 0, 10)]

\* lines 213-220
RandomRecLower(address, random) ==
    [address |-> ToLowerCase(address), score |-> random, reason |-> "trending",
     mutualFollowers |-> 0, mutualFollowerSources |-> <<>>]

RandomRec(address, random) ==
    [address |-> address, score |-> random, reason |-> "trending",
     mutualFollowers |-> 0, mutualFollowerSources |-> <<>>]

\* lines 414-426: the two tests that drop a candidate before it is listed
AlreadyFollowedChainOnly(address, followingList, alreadyFollowing) ==
    alreadyFollowing

AlreadyFollowed(address, followingList, alreadyFollowing) ==
    \/ ToLowerCase(address) \in LowerSet(followingList)
    \/ alreadyFollowing

\* lines 176-179
FilteredProfilesKeepFollowed(randomProfiles, followingSet, me) ==
    SelectSeq(randomProfiles,
              LAMBDA a : /\ ToLowerCase(a) \in followingSet
                         /\ ToLowerCase(a) # ToLowerCase(me))

FilteredProfiles(randomProfiles, followingSet, me) ==
    SelectSeq(randomProfiles,
              LAMBDA a : /\ ToLowerCase(a) \notin followingSet
                         /\ ToLowerCase(a) # ToLowerCase(me))

\* the orders a shuffle can produce
Perms(S) ==
    {f \in [1..Cardinality(S) -> S] :
        \A i, j \in 1..Cardinality(S) : i # j => f[i] # f[j]}

\* db.followers.getRandomProfiles(limit, excludeAddress), supabase.ts lines
\* 68-117: the distinct stored addresses other than excludeAddress (compared
\* as strings), shuffled and cut to limit; [] on a database error
RandomProfiles(stored, limit, excludeAddress, ok) ==
    IF ok THEN {Slice(f, 0, limit) : f \in Perms(stored \ {excludeAddress})}
    ELSE {<<>>}

WideLen == 26       \* accounts followed by the seed of the wide graph

\* the follow relations a run starts from: small graphs around the
\* requester, a requester whose following list is longer than a page, a
\* follower of the requester that follows and is followed by account 3, and
\* a mutual connection of the requester that follows WideLen other accounts
RecFollows ==
    [base : {{}, {<<1, k>> : k \in 3..8}},
     opt : SUBSET {<<1, 0>>, <<0, 1>>, <<0, 3>>, <<2, 0>>, <<2, 3>>}]
    \cup {[base |-> {<<Me, k>> : k \in 1..LongLen}, opt |-> {}]}
    \cup {[base |-> {<<1, 0>>, <<1, 3>>, <<3, 1>>}, opt |-> {}]}
    \cup {[base |-> {<<1, 0>>, <<0, 1>>}
                       \cup {<<1, 1 + k>> : k \in 1..WideLen},
             opt |-> {}]}

Pools == {{}, {<<0, "l">>, <<3, "c">>, <<9, "c">>},
          {<<0, "c">>, <<3, "l">>, <<4, "c">>}}

InitRec ==
    /\ UiIdle
    /\ AggIdle
    /\ MutIdle
    /\ StatIdle
    /\ changes = 0
    /\ \E g \in RecFollows, rendering \in Casings :
          LET follows == g.base \cup g.opt
              following(i) == ListOf({e[2] : e \in {d \in follows : d[1] = i}})
          IN /\ rendering = "l" => <<LowerSeed, 3>> \in follows
             /\ ledgerFollowing =
                  [i \in RecIds |->
                      IF i = LowerSeed /\ rendering = "l"
                      THEN MapLower(following(i)) ELSE following(i)]
             /\ ledgerFollowers =
                  [i \in RecIds |-> ListOf({e[1] : e \in {d \in follows : d[2] = i}})]
    /\ accounts0 \in {<<Me, "c">>, <<Me, "l">>}
    /\ pool \in Pools
    /\ recPc = "loadFollowers"
    /\ readFailures = 0
    /\ rAllFollowers = <<>>
    /\ rAllFollowing = <<>>
    /\ extendedNetwork = <<>>
    /\ netIdx = 0
    /\ candidateProfiles = <<>>
    /\ sortedCandidates = <<>>
    /\ currentFollowing = <<>>
    /\ existingFollowing = <<>>
    /\ shuffled = <<>>
    /\ candIdx = 0
    /\ recommendationsList = <<>>
    /\ recommendations = <<>>
    /\ recError = "none"
    /\ recPath = "none"
    /\ verifiedFollowing = {}
    /\ seedReads = {}
    /\ page = 0
    /\ listedWhileFollowed = {}

\* lines 261-270: one turn of the follower paging loop
LoadFollowers ==
    /\ recPc = "loadFollowers"
    /\ \E ok \in ReadOks :
          LET batch == PageRead(ledgerFollowers[Me], page * batchSize, ok)
          IN /\ rAllFollowers' = rAllFollowers \o batch
             /\ readFailures' = Failed(ok)
             /\ IF HasMore(batch)
                THEN page' = page + 1 /\ recPc' = recPc
                ELSE page' = 0 /\ recPc' = "loadFollowing"
    /\ UNCHANGED <<listedWhileFollowed, accounts0, pool, rAllFollowing, extendedNetwork, netIdx,
                   candidateProfiles, sortedCandidates, currentFollowing,
                   existingFollowing, shuffled, candIdx, recommendationsList,
                   recommendations, recError, recPath, verifiedFollowing,
                   seedReads, ledgerVars, aggVars, mutVars, statVars, uiVars>>

\* lines 276-316: one turn of the following paging loop and, when the loop
\* ends, the choice between the random path and the expansion
LoadFollowing ==
    /\ recPc = "loadFollowing"
    /\ \E ok \in ReadOks :
          LET batch == PageRead(ledgerFollowing[Me], page * batchSize, ok)
              following == rAllFollowing \o batch
          IN /\ rAllFollowing' = following
             /\ readFailures' = Failed(ok)
             /\ IF HasMore(batch)
                THEN /\ page' = page + 1
                     /\ UNCHANGED <<recPc, extendedNetwork, netIdx>>
                ELSE /\ page' = 0
                     /\ IF Len(rAllFollowers) = 0 /\ Len(following) = 0
                        THEN /\ recPc' = "randomFollowing"
                             /\ UNCHANGED <<extendedNetwork, netIdx>>
                        ELSE /\ recPc' = "expandFollowing"
                             /\ extendedNetwork' =
                                  ExtendedNetwork(rAllFollowers, following)
                             /\ netIdx' = 1
    /\ UNCHANGED <<listedWhileFollowed, accounts0, pool, rAllFollowers, candidateProfiles,
                   sortedCandidates, currentFollowing, existingFollowing,
                   shuffled, candIdx, recommendationsList, recommendations,
                   recError, recPath, verifiedFollowing, seedReads,
                   ledgerVars, aggVars, mutVars, statVars, uiVars>>

\* lines 322-340: the seed's following list
ExpandFollowing ==
    /\ recPc = "expandFollowing"
    /\ \E ok \in ReadOks :
          LET networkAddress == extendedNetwork[netIdx]
              networkFollowing ==
                 PageRead(ledgerFollowing[networkAddress[1]], 0, ok)
          IN /\ candidateProfiles' =
                  Accumulate(candidateProfiles, networkFollowing,
                             networkAddress, accounts0, LowerSet(rAllFollowing))
             /\ seedReads' = seedReads \cup {networkAddress}
             /\ readFailures' = Failed(ok)
    /\ recPc' = "expandFollowers"
    /\ UNCHANGED <<listedWhileFollowed, accounts0, pool, rAllFollowers, rAllFollowing,
                   extendedNetwork, netIdx, sortedCandidates,
                   currentFollowing, existingFollowing, shuffled, candIdx,
                   recommendationsList, recommendations, recError, recPath,
                   verifiedFollowing, page, ledgerVars, aggVars, mutVars, statVars, uiVars>>

\* lines 343-381: the seed's follower list, the next seed, and after the
\* last seed the sort or the random path
ExpandFollowers ==
    /\ recPc = "expandFollowers"
    /\ \E ok \in ReadOks :
          LET networkAddress == extendedNetwork[netIdx]
              networkFollowers ==
                 PageRead(ledgerFollowers[networkAddress[1]], 0, ok)
              cands == Accumulate(candidateProfiles, networkFollowers,
                                  networkAddress, accounts0,
                                  LowerSet(rAllFollowing))
          IN /\ candidateProfiles' = cands
             /\ readFailures' = Failed(ok)
             /\ IF netIdx < Len(extendedNetwork)
                THEN /\ netIdx' = netIdx + 1
                     /\ recPc' = "expandFollowing"
                     /\ UNCHANGED sortedCandidates
                ELSE /\ netIdx' = netIdx
                     /\ IF Len(cands) = 0
                        THEN /\ recPc' = "randomFollowing"
                             /\ UNCHANGED sortedCandidates
                        ELSE /\ recPc' = "reverify"
                             /\ sortedCandidates' = SortedCandidates(cands)
    /\ UNCHANGED <<listedWhileFollowed, accounts0, pool, rAllFollowers, rAllFollowing,
                   extendedNetwork, currentFollowing, existingFollowing,
                   shuffled, candIdx, recommendationsList, recommendations,
                   recError, recPath, verifiedFollowing, seedReads, page,
                   ledgerVars, aggVars, mutVars, statVars, uiVars>>

\* lines 391-409: one turn of the re-verification paging loop
Reverify ==
    /\ recPc = "reverify"
    /\ \E ok \in ReadOks :
          LET batch == PageRead(ledgerFollowing[Me], page * batchSize, ok)
              following == currentFollowing \o batch
          IN /\ currentFollowing' = following
             /\ readFailures' = Failed(ok)
             /\ IF HasMore(batch)
                THEN /\ page' = page + 1
                     /\ UNCHANGED <<recPc, candIdx, verifiedFollowing>>
                ELSE /\ page' = 0
                     /\ recPc' = "check"
                     /\ candIdx' = 1
                     /\ verifiedFollowing' = {}
    /\ UNCHANGED <<listedWhileFollowed, accounts0, pool, rAllFollowers, rAllFollowing,
                   extendedNetwork, netIdx, candidateProfiles,
                   sortedCandidates, existingFollowing, shuffled,
                   recommendationsList, recommendations, recError, recPath,
                   seedReads, ledgerVars, aggVars, mutVars, statVars, uiVars>>

\* lines 411-510: one candidate of sortedCandidates, and after the last one
\* the list is shown, or the random path is taken when it has fewer than
\* MinNetworkRecs entries
CheckCandidate ==
    /\ recPc = "check"
    /\ \E ok \in ReadOks, random \in Draws(candIdx) :
          LET c == sortedCandidates[candIdx]
              cached == ToLowerCase(c.address) \in LowerSet(currentFollowing)
              alreadyFollowing ==
                 ~cached /\ IsFollowingRead(ledgerFollowing[Me], c.address, ok)
              hasMutual ==
                 Len(MutualFollowers(rAllFollowers, rAllFollowing)) > 0
              list == IF AlreadyFollowed(c.address, currentFollowing,
                                         alreadyFollowing)
                      THEN recommendationsList
                      ELSE Append(recommendationsList,
                                  NetworkRec(c, Len(extendedNetwork),
                                             hasMutual, random))
          IN /\ (cached \/ hasMutual) => random = 60
             /\ cached => ok
             /\ readFailures' = Failed(ok)
             /\ verifiedFollowing' =
                  IF alreadyFollowing
                  THEN verifiedFollowing \cup {c.address}
                  ELSE verifiedFollowing
             /\ recommendationsList' = list
             /\ listedWhileFollowed' =
                  IF list # recommendationsList
                     /\ IsFollowingRead(ledgerFollowing[Me], c.address, TRUE)
                  THEN listedWhileFollowed \cup {ToLowerCase(c.address)}
                  ELSE listedWhileFollowed
             /\ IF candIdx < Len(sortedCandidates)
                THEN /\ candIdx' = candIdx + 1
                     /\ UNCHANGED <<recPc, recommendations, recPath>>
                ELSE /\ candIdx' = candIdx
                     /\ IF Len(list) < MinNetworkRecs
                        THEN /\ recPc' = "randomFollowing"
                             /\ UNCHANGED <<recommendations, recPath>>
                        ELSE /\ recPc' = "done"
                             /\ recommendations' = list
                             /\ recPath' = "network"
    /\ UNCHANGED <<accounts0, pool, rAllFollowers, rAllFollowing,
                   extendedNetwork, netIdx, candidateProfiles,
                   sortedCandidates, currentFollowing, existingFollowing,
                   shuffled, recError, seedReads, page, ledgerVars, aggVars,
                   mutVars, statVars, uiVars>>

\* lines 141-157: one turn of the paging loop of the random path
RandomFollowing ==
    /\ recPc = "randomFollowing"
    /\ \E ok \in ReadOks :
          LET batch == PageRead(ledgerFollowing[Me], page * batchSize, ok)
          IN /\ existingFollowing' =
                  (IF page = 0 THEN <<>> ELSE existingFollowing) \o batch
             /\ readFailures' = Failed(ok)
             /\ IF HasMore(batch)
                THEN page' = page + 1 /\ recPc' = recPc
                ELSE page' = 0 /\ recPc' = "randomPool"
    /\ UNCHANGED <<listedWhileFollowed, accounts0, pool, rAllFollowers, rAllFollowing,
                   extendedNetwork, netIdx, candidateProfiles,
                   sortedCandidates, currentFollowing, shuffled, candIdx,
                   recommendationsList, recommendations, recError, recPath,
                   verifiedFollowing, seedReads, ledgerVars, aggVars,
                   mutVars, statVars, uiVars>>

\* lines 165-190: the pool is drawn, filtered and shuffled; an empty draw
\* ends the run with the error state set
RandomPool ==
    /\ recPc = "randomPool"
    /\ \E ok \in ReadOks :
       \E randomProfiles \in RandomProfiles(pool, RandomPoolLimit, accounts0, ok) :
          LET filteredProfiles ==
                 FilteredProfiles(randomProfiles, LowerSet(existingFollowing),
                                  accounts0)
          IN /\ readFailures' = Failed(ok)
             /\ IF Len(randomProfiles) = 0
                THEN /\ recError' = "No profiles found"
                     /\ recPc' = "done"
                     /\ UNCHANGED <<shuffled, candIdx, recommendationsList,
                                    recommendations, recPath,
                                    verifiedFollowing, listedWhileFollowed>>
                ELSE /\ \E f \in Perms(Range(filteredProfiles)) :
                           shuffled' = Slice(f, 0, ShuffleLimit)
                     /\ recommendationsList' = <<>>
                     /\ verifiedFollowing' = {}
                     /\ listedWhileFollowed' = {}
                     /\ UNCHANGED recError
                     /\ IF Len(filteredProfiles) = 0
                        THEN /\ recPc' = "done"
                             /\ recommendations' = <<>>
                             /\ recPath' = "random"
                             /\ UNCHANGED candIdx
                        ELSE /\ recPc' = "randomCheck"
                             /\ candIdx' = 1
                             /\ UNCHANGED <<recommendations, recPath>>
    /\ UNCHANGED <<accounts0, pool, rAllFollowers, rAllFollowing,
                   extendedNetwork, netIdx, candidateProfiles,
                   sortedCandidates, currentFollowing, existingFollowing,
                   seedReads, page, ledgerVars, aggVars, mutVars, statVars, uiVars>>

\* lines 192-232: one entry of the shuffled pool; the loop stops at
\* TargetCount recommendations, and the list is shown when it ends
RandomCheck ==
    /\ recPc = "randomCheck"
    /\ \E ok \in ReadOks, random \in Draws(candIdx) :
          LET address == shuffled[candIdx]
              alreadyFollowing ==
                 IsFollowingRead(ledgerFollowing[Me], address, ok)
              list == IF alreadyFollowing THEN recommendationsList
                      ELSE Append(recommendationsList,
                                  RandomRec(address, random))
          IN /\ alreadyFollowing => random = 60
             /\ readFailures' = Failed(ok)
             /\ verifiedFollowing' =
                  IF alreadyFollowing
                  THEN verifiedFollowing \cup {address}
                  ELSE verifiedFollowing
             /\ recommendationsList' = list
             /\ listedWhileFollowed' =
                  IF list # recommendationsList
                     /\ IsFollowingRead(ledgerFollowing[Me], address, TRUE)
                  THEN listedWhileFollowed \cup {ToLowerCase(address)}
                  ELSE listedWhileFollowed
             /\ IF candIdx < Len(shuffled) /\ Len(list) < TargetCount
                THEN /\ candIdx' = candIdx + 1
                     /\ UNCHANGED <<recPc, recommendations, recPath>>
                ELSE /\ candIdx' = candIdx
                     /\ recPc' = "done"
                     /\ recommendations' = list
                     /\ recPath' = "random"
    /\ UNCHANGED <<accounts0, pool, rAllFollowers, rAllFollowing,
                   extendedNetwork, netIdx, candidateProfiles,
                   sortedCandidates, currentFollowing, existingFollowing,
                   shuffled, recError, seedReads, page, ledgerVars, aggVars,
                   mutVars, statVars, uiVars>>

\* the requester follows an account (from another tab or client) while the
\* run is in progress: the contract's follow(addr)
MeFollows ==
    /\ recPc # "done"
    /\ changes < MaxChanges
    /\ \E k \in LateFollowIds :
          /\ k \notin {ledgerFollowing[Me][i][1] : i \in 1..Len(ledgerFollowing[Me])}
          /\ ledgerFollowing' = [ledgerFollowing EXCEPT ![Me] = Append(@, Addr(k))]
          /\ ledgerFollowers' = [ledgerFollowers EXCEPT ![k] = Append(@, Addr(Me))]
    /\ changes' = changes + 1
    /\ UNCHANGED <<recVars, aggVars, mutVars, statVars, uiVars>>

NextRec ==
    \/ LoadFollowers
    \/ LoadFollowing
    \/ ExpandFollowing
    \/ ExpandFollowers
    \/ Reverify
    \/ CheckCandidate
    \/ RandomFollowing
    \/ RandomPool
    \/ RandomCheck
    \/ MeFollows

SpecRec == InitRec /\ [][NextRec]_vars

\* ------------------------------------------- statistics refresh
\* FollowerStats.fetchBlockchainStats with fetchDailyChange and
\* saveStatsToDatabase, and db.stats.getStats / saveStats.  A day is a day
\* number; the follow_stats table has a DATE column and UNIQUE(address, date).
MaxDay == 2          \* local calendar days the clock runs through

MaxRefreshes == 3    \* refreshes of one behaviour

Zones == {-1, 0, 1}

StatAddrs == {<<Me, "c">>, <<1, "c">>}

CountTriples ==
    {[followerCount |-> 1, followingCount |-> 1, mutualCount |-> 1],
     [followerCount |-> 2, followingCount |-> 1, mutualCount |-> 1]}

\* today.setHours(0, 0, 0, 0); today.toISOString(), stored in a DATE column:
\* the UTC date of the local midnight, which east of UTC is the day before
StoredDate(day, zone) == IF zone > 0 THEN day - 1 ELSE day

\* new Date(stat.date); statDate.setHours(0, 0, 0, 0): the local day in which
\* the UTC midnight of the stored date falls, which west of UTC is the day
\* before
LocalDayOf(date, zone) == IF zone < 0 THEN date - 1 ELSE date

\* the UTC dates on which an instant of the local day can fall
UtcDays(day, zone) ==
    IF zone > 0 THEN {day - 1, day}
    ELSE IF zone < 0 THEN {day, day + 1}
    ELSE {day}

\* db.stats.getStats(address, days): the rows of the address whose date is
\* not before now - days * 24h; [] when the query fails
GetStats(rows, address, nowDay, days, ok) ==
    IF ok THEN {r \in rows : r.address = address /\ r.date > nowDay - days}
    ELSE {}

Row(address, date, counts) ==
    [address |-> address, date |-> date,
     follower_count |-> counts.followerCount,
     following_count |-> counts.followingCount,
     mutual_count |-> counts.mutualCount]

\* upsert([stats], {onConflict: 'address,date'}) on UNIQUE(address, date)
UpsertInsert(rows, row) == rows \cup {row}

Upsert(rows, row) ==
    {r \in rows : ~(r.address = row.address /\ r.date = row.date)} \cup {row}

\* saveStatsToDatabase, lines 217-227
ShouldSave(recentStats, day, zone, counts) ==
    LET todayStats == {r \in recentStats : LocalDayOf(r.date, zone) = day}
    IN \/ todayStats = {}
       \/ \E r \in todayStats :
             \/ r.follower_count # counts.followerCount
             \/ r.following_count # counts.followingCount
             \/ r.mutual_count # counts.mutualCount

\* fetchDailyChange, lines 190-199
DailyChangeOf(recentStats, day, zone, currentFollowerCount) ==
    LET yesterdayStats ==
           {r \in recentStats : LocalDayOf(r.date, zone) = day - 1}
    IN IF yesterdayStats = {} THEN 0
       ELSE currentFollowerCount -
            (CHOOSE r \in yesterdayStats : TRUE).follower_count

\* fetchBlockchainStats, lines 149-157: what saveStatsToDatabase throws is
\* caught, and the refresh goes on to setStats
AfterSaveUncaught(threw) == IF threw THEN "failed" ELSE "setStats"

AfterSave(threw) == "setStats"

InitStats ==
    /\ UiIdle
    /\ LedgerIdle
    /\ AggIdle
    /\ MutIdle
    /\ RecIdle
    /\ statPc = "idle"
    /\ store = {}
    /\ tz \in Zones
    /\ today = 1
    /\ statAddress = <<Me, "c">>
    /\ fresh = NoCounts
    /\ dailyChange = 0
    /\ shownStats = NoShownStats
    /\ statError = "none"
    /\ refreshes = 0
    /\ storeBefore = {}
    /\ lastWrite = "none"
    /\ storeFailures = {}

\* lines 125-143: a refresh starts (mount, account change or the Refresh
\* button) and getMutualConnections returns its counts
FS_Start ==
    /\ statPc = "idle"
    /\ refreshes < MaxRefreshes
    /\ \E a \in StatAddrs, c \in CountTriples,
          d \in {today, today + 1} \cap 1..MaxDay :
          /\ statAddress' = a
          /\ fresh' = c
          /\ today' = d
    /\ refreshes' = refreshes + 1
    /\ storeBefore' = store
    /\ lastWrite' = "none"
    /\ storeFailures' = {}
    /\ statError' = "none"
    /\ statPc' = "dailyChange"
    /\ UNCHANGED <<store, tz, dailyChange, shownStats, ledgerVars, aggVars,
                   mutVars, recVars, uiVars>>

\* line 146 with fetchDailyChange, lines 180-204
FS_DailyChange ==
    /\ statPc = "dailyChange"
    /\ \E ok \in BOOLEAN, nowDay \in UtcDays(today, tz) :
          /\ dailyChange' =
               DailyChangeOf(GetStats(store, statAddress, nowDay, 2, ok),
                             today, tz, fresh.followerCount)
          /\ storeFailures' = IF ok THEN storeFailures
                              ELSE storeFailures \cup {"dailyChange"}
    /\ statPc' = "saveRead"
    /\ UNCHANGED <<store, tz, today, statAddress, fresh, shownStats,
                   statError, refreshes, storeBefore, lastWrite, ledgerVars,
                   aggVars, mutVars, recVars, uiVars>>

\* saveStatsToDatabase, lines 207-229: the read of the latest rows and the
\* decision to save
FS_SaveRead ==
    /\ statPc = "saveRead"
    /\ \E ok \in BOOLEAN, nowDay \in UtcDays(today, tz) :
          /\ storeFailures' = IF ok THEN storeFailures
                              ELSE storeFailures \cup {"saveRead"}
          /\ IF ShouldSave(GetStats(store, statAddress, nowDay, 1, ok),
                           today, tz, fresh)
             THEN statPc' = "write" /\ lastWrite' = lastWrite
             ELSE statPc' = AfterSave(FALSE) /\ lastWrite' = "skipped"
    /\ UNCHANGED <<store, tz, today, statAddress, fresh, dailyChange,
                   shownStats, statError, refreshes, storeBefore, ledgerVars,
                   aggVars, mutVars, recVars, uiVars>>

\* saveStatsToDatabase, lines 230-250, with db.stats.saveStats: the upsert
\* succeeds, or fails and saveStatsToDatabase throws
FS_Write ==
    /\ statPc = "write"
    /\ \E ok \in BOOLEAN :
          IF ok
          THEN /\ store' = Upsert(store, Row(statAddress,
                                             StoredDate(today, tz), fresh))
               /\ lastWrite' = "ok"
               /\ statPc' = AfterSave(FALSE)
               /\ UNCHANGED storeFailures
          ELSE /\ lastWrite' = "failed"
               /\ storeFailures' = storeFailures \cup {"write"}
               /\ statPc' = AfterSave(TRUE)
               /\ UNCHANGED store
    /\ UNCHANGED <<tz, today, statAddress, fresh, dailyChange, shownStats,
                   statError, refreshes, storeBefore, ledgerVars, aggVars,
                   mutVars, recVars, uiVars>>

\* lines 159-169
FS_SetStats ==
    /\ statPc = "setStats"
    /\ shownStats' = [followerCount |-> fresh.followerCount,
                      followingCount |-> fresh.followingCount,
                      mutualCount |-> fresh.mutualCount,
                      dailyChange |-> dailyChange]
    /\ statPc' = "idle"
    /\ UNCHANGED <<store, tz, today, statAddress, fresh, dailyChange,
                   statError, refreshes, storeBefore, lastWrite,
                   storeFailures, ledgerVars, aggVars, mutVars, recVars, uiVars>>

NextStats ==
    \/ FS_Start
    \/ FS_DailyChange
    \/ FS_SaveRead
    \/ FS_Write
    \/ FS_SetStats

SpecStats == InitStats /\ [][NextStats]_vars

\* ------------------------------------------- Dashboard account changes
\* Dashboard.tsx: fetchStats (lines 79-132) and the effect that calls it and
\* registers handleAccountsChanged (lines 134-172).
MaxSwitches == 2    \* account changes of one behaviour

DashAccounts == {Me, 1, 2}

dashFrame == <<coreVars, walletVars, loadVars, selVars, pageVars, homeVars>>

\* one more running call of fetchStats for account a
Started(inFlight, a) == [inFlight EXCEPT ![a] = @ + 1]

\* the state after the first render's effect: fetchStats runs for accounts[0]
InitDash ==
    /\ CoreIdle
    /\ WalletIdle
    /\ LoadIdle
    /\ SelIdle
    /\ PageIdle
    /\ HomeIdle
    /\ dashAccount = Me
    /\ dashClosure = Me
    /\ dashStale = FALSE
    /\ dashInFlight = Started([a \in DashAccounts |-> 0], Me)
    /\ dashShown = -1
    /\ dashSwitches = 0
    /\ dashFailed = FALSE

\* the provider emits accountsChanged: the wallet context sets accounts, and
\* the registered handleAccountsChanged (lines 148-154) calls the fetchStats
\* of the render whose effect registered it
DashAccountsChanged ==
    /\ dashSwitches < MaxSwitches
    /\ \E b \in DashAccounts \ {dashAccount} : dashAccount' = b
    /\ dashInFlight' = Started(dashInFlight, dashClosure)
    /\ dashStale' = TRUE
    /\ dashSwitches' = dashSwitches + 1
    /\ UNCHANGED <<dashClosure, dashShown, dashFailed, dashFrame>>

\* the re-render with the new accounts: the old effect is cleaned up, the
\* effect runs again, calls the new fetchStats and registers a new handler
DashEffect ==
    /\ dashStale
    /\ dashStale' = FALSE
    /\ dashClosure' = dashAccount
    /\ dashInFlight' = Started(dashInFlight, dashAccount)
    /\ UNCHANGED <<dashAccount, dashShown, dashSwitches, dashFailed, dashFrame>>

\* a running fetchStats comes back: setStats with the numbers of the account
\* it was called for (lines 116-123), or the catch block (lines 126-128)
DashFetchReturns ==
    /\ \E a \in DashAccounts, ok \in BOOLEAN :
          /\ dashInFlight[a] > 0
          /\ dashInFlight' = [dashInFlight EXCEPT ![a] = @ - 1]
          /\ dashShown' = IF ok THEN a ELSE dashShown
          /\ dashFailed' = (dashFailed \/ ~ok)
    /\ UNCHANGED <<dashAccount, dashClosure, dashStale, dashSwitches, dashFrame>>

NextDash ==
    \/ DashAccountsChanged
    \/ DashEffect
    \/ DashFetchReturns

SpecDash == InitDash /\ [][NextDash]_vars

\* ------------------------------------------- WalletProvider
\* part_004: connect (lines 29-55) and the effect with init and the three
\* provider listeners (lines 57-108).
MaxEvents == 3          \* provider events of one behaviour

MaxInitFailures == 1    \* init() calls that may throw

walletFrame == <<coreVars, dashVars, loadVars, selVars, pageVars, homeVars>>

\* lines 46, 77, 87, 92
BothNonEmpty(accountsLen, contextLen) == accountsLen > 0 /\ contextLen > 0

\* the provider is mounted: the first effect run has called init()
InitWallet ==
    /\ CoreIdle
    /\ DashIdle
    /\ LoadIdle
    /\ SelIdle
    /\ PageIdle
    /\ HomeIdle
    /\ wAccounts = 0
    /\ wContextAccounts = 0
    /\ wIsConnected = FALSE
    /\ wClosure = [accounts |-> 0, contextAccounts |-> 0]
    /\ wProvider \in [accounts : Lens, contextAccounts : Lens]
    /\ wInitsWaiting = 1
    /\ wInitsRead = [n \in Lens |-> 0]
    /\ wEvents = 0
    /\ wInitFailures = 0

\* lines 85-88: the wallet's accounts change and the registered
\* handleAccountsChanged runs with the contextAccounts of its closure
HandleAccountsChanged ==
    /\ wEvents < MaxEvents
    /\ \E n \in Lens \ {wProvider.accounts} :
          /\ wProvider' = [wProvider EXCEPT !.accounts = n]
          /\ wAccounts' = n
          /\ wIsConnected' = BothNonEmpty(n, wClosure.contextAccounts)
    /\ wEvents' = wEvents + 1
    /\ UNCHANGED <<wContextAccounts, wClosure, wInitsWaiting, wInitsRead,
                   wInitFailures, walletFrame>>

\* lines 90-93: the same for contextAccountsChanged, with the accounts of
\* the closure
HandleContextAccountsChanged ==
    /\ wEvents < MaxEvents
    /\ \E n \in Lens \ {wProvider.contextAccounts} :
          /\ wProvider' = [wProvider EXCEPT !.contextAccounts = n]
          /\ wContextAccounts' = n
          /\ wIsConnected' = BothNonEmpty(wClosure.accounts, n)
    /\ wEvents' = wEvents + 1
    /\ UNCHANGED <<wAccounts, wClosure, wInitsWaiting, wInitsRead,
                   wInitFailures, walletFrame>>

\* lines 57-108: a render changed accounts.length or contextAccounts.length,
\* so the effect runs again: the old listeners are removed, init() is
\* called, and listeners that capture the present state are registered
WalletEffect ==
    /\ wClosure # [accounts |-> wAccounts, contextAccounts |-> wContextAccounts]
    /\ wClosure' = [accounts |-> wAccounts, contextAccounts |-> wContextAccounts]
    /\ wInitsWaiting' = wInitsWaiting + 1
    /\ UNCHANGED <<wAccounts, wContextAccounts, wIsConnected, wProvider,
                   wInitsRead, wEvents, wInitFailures, walletFrame>>

\* lines 68-71: getChainId and getAddresses answer, or one of them rejects
\* and the catch block of lines 78-80 ends init()
InitReads ==
    /\ wInitsWaiting > 0
    /\ wInitsWaiting' = wInitsWaiting - 1
    /\ \/ /\ wInitsRead' = [wInitsRead EXCEPT ![wProvider.accounts] = @ + 1]
          /\ UNCHANGED wInitFailures
       \/ /\ wInitFailures < MaxInitFailures
          /\ wInitFailures' = wInitFailures + 1
          /\ UNCHANGED wInitsRead
    /\ UNCHANGED <<wAccounts, wContextAccounts, wIsConnected, wClosure,
                   wProvider, wEvents, walletFrame>>

\* lines 72-77: init() goes on after its await and sets the three states
InitSets ==
    /\ \E n \in Lens :
          /\ wInitsRead[n] > 0
          /\ wInitsRead' = [wInitsRead EXCEPT ![n] = @ - 1]
          /\ wAccounts' = n
          /\ wContextAccounts' = wProvider.contextAccounts
          /\ wIsConnected' = BothNonEmpty(n, wProvider.contextAccounts)
    /\ UNCHANGED <<wClosure, wProvider, wInitsWaiting, wEvents,
                   wInitFailures, walletFrame>>

\* lines 29-55: connect() resolves: it sets the three states from what the
\* wallet holds
Connect ==
    /\ wAccounts' = wProvider.accounts
    /\ wContextAccounts' = wProvider.contextAccounts
    /\ wIsConnected' = BothNonEmpty(wProvider.accounts,
                                    wProvider.contextAccounts)
    /\ UNCHANGED <<wClosure, wProvider, wInitsWaiting, wInitsRead, wEvents,
                   wInitFailures, walletFrame>>

NextWallet ==
    \/ Connect
    \/ HandleAccountsChanged
    \/ HandleContextAccountsChanged
    \/ WalletEffect
    \/ InitReads
    \/ InitSets

SpecWallet == InitWallet /\ [][NextWallet]_vars

\* ------------------------------------------- FollowerManagement: Load More
\* part_005: fetchFollowers (lines 70-146), the mount effect (lines 412-422)
\* and the Load More button (lines 670-684).
fmPageSize == 10    \* pageSize of FollowerManagement

loadFrame == <<coreVars, dashVars, walletVars, selVars, pageVars, homeVars>>

\* the component is mounted for an account with any number of followers up
\* to LongLen, and the effect has called fetchFollowers()
InitLoad ==
    /\ AggIdle
    /\ MutIdle
    /\ RecIdle
    /\ StatIdle
    /\ DashIdle
    /\ WalletIdle
    /\ SelIdle
    /\ PageIdle
    /\ HomeIdle
    /\ \E n \in 0..LongLen : ledgerFollowers = [i \in {Me} |-> LongList(n)]
    /\ ledgerFollowing = [i \in {Me} |-> <<>>]
    /\ changes = 0
    /\ fmPc = "fetching"
    /\ fmRequested = 0
    /\ fmFollowers = <<>>
    /\ fmHasMore = TRUE
    /\ fmPage = 0
    /\ fmFailed = FALSE

\* lines 77-138: getFollowers(accounts[0], newPage * pageSize) answers, or
\* is rejected and gives []; hasMore, followers and page are set
FetchFollowersReturns ==
    /\ fmPc = "fetching"
    /\ \E ok \in BOOLEAN :
          LET followerAddresses ==
                 PageRead(ledgerFollowers[Me], fmRequested * fmPageSize, ok)
          IN /\ fmHasMore' = (Len(followerAddresses) = fmPageSize)
             /\ fmFollowers' = IF fmRequested = 0 THEN followerAddresses
                               ELSE fmFollowers \o followerAddresses
             /\ fmFailed' = (fmFailed \/ ~ok)
    /\ fmPage' = fmRequested
    /\ fmPc' = "loaded"
    /\ UNCHANGED <<fmRequested, ledgerVars, aggVars, mutVars, recVars,
                   statVars, dashVars, walletVars, selVars, pageVars,
                   homeVars>>

\* lines 670-684: the button is rendered while hasMore and enabled while
\* not loading; it calls fetchFollowers(page + 1)
LoadMore ==
    /\ fmPc = "loaded"
    /\ fmHasMore
    /\ fmRequested' = fmPage + 1
    /\ fmPc' = "fetching"
    /\ UNCHANGED <<fmFollowers, fmHasMore, fmPage, fmFailed, loadFrame>>

NextLoad ==
    \/ FetchFollowersReturns
    \/ LoadMore

SpecLoad == InitLoad /\ [][NextLoad]_vars

\* ------------------------------------------- Followers: selection
\* Followers.tsx: fetchFollowers (lines 91-174), the page effect and
\* handlers (lines 176-212), handleRefresh (lines 74-79), toggleSelect and
\* toggleSelectAll (lines 298-329) and the bulk handlers (lines 332-489).
MaxClickRows == 2   \* rows of a page whose checkbox the user clicks

selFrame == <<coreVars, dashVars, walletVars, loadVars, pageVars, homeVars>>

\* lines 143-161: the rows of page p (from 1) of allFollowersData
PageRows(all, p) == Slice(all, (p - 1) * pageSize, p * pageSize)

\* lines 81-88: Math.ceil(totalResults / pageSize), 1 for no results
TotalPages(n) == IF n > 0 THEN (n + pageSize - 1) \div pageSize ELSE 1

\* the list has been fetched for an account with one follower more than a
\* page holds, and the first page is displayed with nothing selected
InitSel ==
    /\ AggIdle
    /\ MutIdle
    /\ RecIdle
    /\ StatIdle
    /\ DashIdle
    /\ WalletIdle
    /\ LoadIdle
    /\ PageIdle
    /\ HomeIdle
    /\ ledgerFollowers = [i \in {Me} |-> LongList(pageSize + 1)]
    /\ ledgerFollowing = [i \in {Me} |-> <<>>]
    /\ changes = 0
    /\ selPage = 1
    /\ selShown = PageRows(ledgerFollowers[Me], 1)
    /\ selFlagged = {}
    /\ selSelected = {}

\* lines 298-314
ToggleSelect ==
    /\ \E i \in 1..Min(MaxClickRows, Len(selShown)) :
          LET address == selShown[i]
          IN /\ selSelected' = IF address \in selSelected
                               THEN selSelected \ {address}
                               ELSE selSelected \cup {address}
             /\ selFlagged' = IF address \in selFlagged
                              THEN selFlagged \ {address}
                              ELSE selFlagged \cup {address}
    /\ UNCHANGED <<selPage, selShown, selFrame>>

\* lines 317-329
ToggleSelectAll ==
    /\ IF Range(selShown) \subseteq selFlagged
       THEN /\ selSelected' = {}
            /\ selFlagged' = {}
       ELSE /\ selSelected' = Range(selShown)
            /\ selFlagged' = Range(selShown)
    /\ UNCHANGED <<selPage, selShown, selFrame>>

\* lines 194-212 and 176-183: a page button sets currentPage, and the page
\* effect calls fetchFollowers(currentPage - 1), which replaces the rows by
\* the slice of allFollowersData, or by freshly built rows for page 1
PageChange ==
    /\ \E newPage \in 1..TotalPages(Len(ledgerFollowers[Me])) :
          /\ newPage # selPage
          /\ selPage' = newPage
          /\ selShown' = PageRows(ledgerFollowers[Me], newPage)
    /\ selFlagged' = {}
    /\ UNCHANGED <<selSelected, selFrame>>

\* lines 74-79: handleRefresh
RefreshFollowers ==
    /\ selPage' = 1
    /\ selShown' = PageRows(ledgerFollowers[Me], 1)
    /\ selFlagged' = {}
    /\ UNCHANGED <<selSelected, selFrame>>

\* lines 332-409 and 412-489: Follow Selected / Unfollow Selected ends.  The
\* batch or single call succeeded, or the fallback loop succeeded for some
\* accounts: their rows lose isSelected and selectedProfiles is emptied.
\* Nothing succeeded: no state changes.
BulkOperation ==
    /\ selSelected # {}
    /\ \E succeeded \in {selSelected, {}}
                         \cup {{a} : a \in selSelected} :
          IF succeeded = {}
          THEN UNCHANGED <<selFlagged, selSelected>>
          ELSE /\ selFlagged' = selFlagged \ succeeded
               /\ selSelected' = {}
    /\ UNCHANGED <<selPage, selShown, selFrame>>

NextSel ==
    \/ ToggleSelect
    \/ ToggleSelectAll
    \/ PageChange
    \/ RefreshFollowers
    \/ BulkOperation

SpecSel == InitSel /\ [][NextSel]_vars

\* ------------------------------------------- Following: pages
\* Following.tsx: the totalPages and page effects and the page handlers
\* (lines 55-94), handleRefresh (lines 112-118), fetchFollowing (lines
\* 121-192) and the accountsChanged handler (lines 213-252).  pageSize is 25
\* here as in Followers.
PageAccounts == {Me, 1, 2}

pageFrame == <<coreVars, dashVars, walletVars, loadVars, selVars, homeVars>>

\* the component is mounted and the effect has called fetchFollowing(); each
\* account follows nobody, one account, or LongLen accounts
InitPage ==
    /\ AggIdle
    /\ MutIdle
    /\ RecIdle
    /\ StatIdle
    /\ DashIdle
    /\ WalletIdle
    /\ LoadIdle
    /\ SelIdle
    /\ HomeIdle
    /\ \E lens \in [PageAccounts -> {0, 1, LongLen}] :
          ledgerFollowing = [i \in PageAccounts |-> LongList(lens[i])]
    /\ ledgerFollowers = [i \in PageAccounts |-> <<>>]
    /\ changes = 0
    /\ pgAccount = Me
    /\ pgAll = <<>>
    /\ pgCurrentPage = 1
    /\ pgTotalPages = 1
    /\ pgFollowing = <<>>
    /\ pgPending = TRUE
    /\ pgError = FALSE
    /\ pgSwitches = 0

\* lines 64-73: the page effect
PageEffect(all, currentPage, following) ==
    IF Len(all) > 0 THEN PageRows(all, currentPage) ELSE following

\* lines 76-94: handlePageChange, handlePreviousPage, handleNextPage, each
\* with its guard, and the page effect that follows
PageClick ==
    /\ \E newPage \in 1..pgTotalPages :
          /\ newPage # pgCurrentPage
          /\ pgCurrentPage' = newPage
          /\ pgFollowing' = PageEffect(pgAll, newPage, pgFollowing)
    /\ UNCHANGED <<pgAccount, pgAll, pgTotalPages, pgPending, pgError,
                   pgSwitches, pageFrame>>

\* lines 112-118: handleRefresh
RefreshFollowing ==
    /\ pgCurrentPage' = 1
    /\ pgFollowing' = PageEffect(pgAll, 1, <<>>)
    /\ pgPending' = TRUE
    /\ pgError' = FALSE
    /\ UNCHANGED <<pgAccount, pgAll, pgTotalPages, pgSwitches, pageFrame>>

\* lines 229-237: the provider announces another account; the handler
\* empties the rows, sets page (not currentPage) to 0 and fetches
FollowingAccountsChanged ==
    /\ pgSwitches < MaxSwitches
    /\ \E b \in PageAccounts \ {pgAccount} : pgAccount' = b
    /\ pgFollowing' = <<>>
    /\ pgPending' = TRUE
    /\ pgError' = FALSE
    /\ pgSwitches' = pgSwitches + 1
    /\ UNCHANGED <<pgAll, pgCurrentPage, pgTotalPages, pageFrame>>

\* lines 131-191: fetchFollowing(0) returns: allFollowingData, totalResults
\* and the first page are set, then the totalPages effect and the page
\* effect run; or getMutualConnections threw and only the error is set
FetchFollowingReturns ==
    /\ pgPending
    /\ pgPending' = FALSE
    /\ \E ok \in BOOLEAN :
          IF ok
          THEN LET followingData == ledgerFollowing[pgAccount]
               IN /\ pgError' = FALSE
                  /\ pgAll' = followingData
                  /\ pgTotalPages' = TotalPages(Len(followingData))
                  /\ pgFollowing' =
                       PageEffect(followingData, pgCurrentPage,
                                  PageRows(followingData, 1))
          ELSE /\ pgError' = TRUE
               /\ UNCHANGED <<pgAll, pgTotalPages, pgFollowing>>
    /\ UNCHANGED <<pgAccount, pgCurrentPage, pgSwitches, pageFrame>>

NextPage ==
    \/ PageClick
    \/ RefreshFollowing
    \/ FollowingAccountsChanged
    \/ FetchFollowingReturns

SpecPage == InitPage /\ [][NextPage]_vars

\* ----------------------------------------------------- aggregation claims
AggDone(op) == aggPc = "done" /\ aggOp = op

\* a call during which no read was rejected and the ledger stayed as it was
AggQuiet == failedReads = {} /\ ~rangeReverted /\ changes = 0

LedgerMutual == LowerSet(ledgerFollowers[Me]) \cap LowerSet(ledgerFollowing[Me])

\* C1: the mutual set getMutualConnections returns is followers(A) \cap
\* following(A) compared case-insensitively (and mutualCount is its size)
\* whenever the call read the ledger state undisturbed, and the one-way
\* followers and the one-way following derived from one returned snapshot
\* never share an account.
C1_MutualIsIntersection ==
    AggDone("fetchStats") =>
        /\ AggQuiet =>
              /\ Range(snapshot.mutualConnections) = LedgerMutual
              /\ snapshot.mutualCount = Cardinality(LedgerMutual)
        /\ LowerSet(OneWayFollowerAddresses(snapshot))
              \cap {ToLowerCase(a) : a \in OneWayFollowingAddresses(snapshot)}
           = {}

C1_Witness ==
    /\ AggDone("fetchStats")
    /\ AggQuiet
    /\ snapshot.mutualCount = 1
    /\ \E i \in 1..Len(snapshot.allFollowing) :
          /\ snapshot.allFollowing[i] \notin Range(snapshot.allFollowers)
          /\ ToLowerCase(snapshot.allFollowing[i]) \in LedgerMutual
    /\ OneWayFollowerAddresses(snapshot) # <<>>
    /\ OneWayFollowingAddresses(snapshot) # {}

\* C2: with no read failing, the snapshot's allFollowers and allFollowing are
\* the ledger's two lists and the Dashboard counts are their lengths.
C2_SnapshotListsAreLedgerLists ==
    (AggDone("fetchStats") /\ AggQuiet) =>
        /\ snapshot.allFollowers = ledgerFollowers[Me]
        /\ snapshot.allFollowing = ledgerFollowing[Me]
        /\ stats.followerCount = Len(ledgerFollowers[Me])
        /\ stats.followingCount = Len(ledgerFollowing[Me])

\* C3: an aggregation whose follower fetch or following fetch was rejected
\* ends with an error for its caller, not with a returned snapshot.
C3_FailedFetchFailsAggregation ==
    (AggDone("fetchStats")
       /\ failedReads \cap {"gaf_count", "gaf_range", "gag_count", "gag_range"}
          # {})
    => outcome = "threw"

\* C4: a rejected followerCount / followingCount read does not end as a
\* returned 0, which is what a successful read of an empty list returns.
C4_FailedCountIsSignalled ==
    ((AggDone("getFollowerCount") \/ AggDone("getFollowingCount"))
       /\ failedReads # {})
    => ~(outcome = "returned" /\ countResult = 0)

\* C5: over a ledger that stays fixed, getAllFollowers returns the ledger's
\* follower list, every entry once and in ledger order, whatever its length;
\* getAllFollowing likewise.
C5_GetAllIsComplete ==
    /\ (AggDone("getAllFollowers") /\ AggQuiet)
          => listResult = ledgerFollowers[Me]
    /\ (AggDone("getAllFollowing") /\ AggQuiet)
          => listResult = ledgerFollowing[Me]

C5_Witness ==
    /\ AggDone("getAllFollowers")
    /\ AggQuiet
    /\ Len(listResult) > PAGE_SIZE
    /\ listResult = ledgerFollowers[Me]

\* C6: when the ledger list changes between the count read and the range
\* read (and no read is rejected by the RPC), getAllFollowers and
\* getAllFollowing still return a list the ledger held at some moment of the
\* call.
C6_ReturnsAListThatExisted ==
    /\ (AggDone("getAllFollowers") /\ failedReads = {})
          => listResult \in histFollowers
    /\ (AggDone("getAllFollowing") /\ failedReads = {})
          => listResult \in histFollowing


\* ------------------------------------------------- bulk mutation claims
MutDone == mutPc = "done"

BatchTried == txLog # <<>> /\ txLog[1].kind = "batch"

BatchThrew == BatchTried /\ txLog[1].result \in {"rejected", "failed"}

\* the individual mutations of the fallback, in the order they were issued
Individual == SubSeq(txLog, 2, Len(txLog))

IndividualOk == {i \in 1..Len(Individual) : Individual[i].result = "ok"}

IndividualFailed ==
    UNION {Range(Individual[i].targets) :
              i \in {j \in 1..Len(Individual) :
                        Individual[j].result \in {"rejected", "failed"}}}

\* every selected account got its own mutation, once, in selection order,
\* and every one of them was resolved
EachAttemptedOnce ==
    /\ Len(Individual) = Len(selected)
    /\ \A i \in 1..Len(Individual) :
          /\ Individual[i].targets = <<selected[i]>>
          /\ Individual[i].result # "pending"

\* C7: after a bulk follow / unfollow of more than 50 accounts, no account
\* that was left out of the submitted batch is shown or counted as followed
\* (unfollowed): the rows marked are accounts the wallet accepted, and the
\* number the toast states is not larger than the number accepted.
C7_LeftOutNeverCounted ==
    (MutDone /\ Len(selected) > MAX_BATCH_SIZE) =>
        /\ marked \subseteq OnChain
        /\ report.followed <= Cardinality(OnChain)

C9_RejectedNotRetried ==
    /\ \A i, j \in 1..Len(txLog) :
          (i < j /\ txLog[i].result = "rejected")
             => Range(txLog[i].targets) \cap Range(txLog[j].targets) = {}
    /\ (MutDone /\ \E i \in 1..Len(txLog) : txLog[i].result = "rejected")
          => report.kind = "error"

\* C13: once a follow / unfollow handler has finished with at least one row
\* shown as followed (unfollowed), the flags shown come from a fetch of the
\* ledger made after the mutation, not from values the handler set itself.
C13_FlagsComeFromLedgerRead ==
    (MutDone /\ marked # {}) => flagsFrom = "ledger"

\* the individual mutations handed to the wallet and not yet resolved
InFlight ==
    {i \in 1..Len(Individual) : Individual[i].result = "pending"}

\* C16: during the fallback from a failed batch the individual mutations are
\* issued one after another: at most one of them is in flight at any time.
C16_FallbackIsSequential ==
    BatchThrew => Cardinality(InFlight) <= 1

\* C21: every path that submits a follow re-reads isFollowing(requester,
\* target) first, so no follow mutation is handed to the wallet for a target
\* that this read reports as followed, that is, for a target in the
\* requester's following list.
C21_NoFollowForFollowedTarget ==
    mode = "follow" =>
        \A i \in 1..Len(txLog) :
            \A a \in Range(txLog[i].targets) :
                ~IsFollowingRead(ledgerFollowing[Me], a, TRUE)

\* C27: a click on Follow Back of a profile that is not selected leads to
\* exactly one follow mutation, whose target is that profile, and to no
\* mutation for any other profile, whatever was selected before.
C27_FollowBackFollowsTheClickedProfile ==
    backed # <<>> =>
        /\ \A i \in 1..Len(txLog) : txLog[i].targets = <<backed>>
        /\ MutDone => Len(txLog) = 1

\* ------------------------------------------------- recommendation claims
RecDone == recPc = "done" /\ recPath # "none"

Listed == {recommendations[i].address : i \in 1..Len(recommendations)}

\* the requester's following list as the re-verification that built the
\* shown list fetched it
Refetched ==
    IF recPath = "network" THEN currentFollowing ELSE existingFollowing

\* C10: every entry of the list that recommendation generation finally
\* shows, on the network path and on the random path alike, differs from the
\* requester under case-insensitive comparison and is not in the requester's
\* following list as the final re-verification read it: it is neither in the
\* re-fetched list nor reported as followed by its own isFollowing check; and
\* when no read of the run was rejected, no entry was in the ledger's
\* following list at the moment it was checked.
C10_RecommendationExclusion ==
    RecDone =>
        /\ \A a \in Listed :
              /\ ToLowerCase(a) # ToLowerCase(accounts0)
              /\ ToLowerCase(a) \notin LowerSet(Refetched)
              /\ a \notin verifiedFollowing
        /\ readFailures = 0 => listedWhileFollowed = {}

\* a run that went through the expansion and its re-verification, ended on
\* the random path, drew the requester in another rendering from the pool,
\* dropped an account the re-verification found followed, and shows a list
C10_Witness ==
    /\ RecDone
    /\ recPath = "random"
    /\ sortedCandidates # <<>>
    /\ recommendations # <<>>
    /\ accounts0 \notin pool
    /\ ToLowerCase(accounts0) \in {ToLowerCase(a) : a \in pool}
    /\ \E a \in pool : \/ a \in verifiedFollowing
                       \/ ToLowerCase(a) \in LowerSet(Refetched)

\* the requester has no followers and follows nobody; in this machine the
\* ledger lists only grow, so they were empty during the whole run
ZeroRequester == ledgerFollowers[Me] = <<>> /\ ledgerFollowing[Me] = <<>>

\* C11: for a requester with zero followers and zero following the
\* generation reads no list of any other account (no seed is expanded), and
\* every entry of the list it shows is an address of the store's pool.
C11_ZeroRequesterUsesPoolOnly ==
    ZeroRequester =>
        /\ seedReads = {}
        /\ extendedNetwork = <<>>
        /\ recPc = "done" => Listed \subseteq pool

C11_Witness ==
    /\ ZeroRequester
    /\ RecDone
    /\ recPath = "random"
    /\ recommendations # <<>>
    /\ Listed \subseteq pool

C17_PagingLoadsCompleteLists ==
    (readFailures = 0 /\ changes = 0) =>
        /\ recPc \in {"expandFollowing", "expandFollowers", "reverify", "check"}
           => /\ rAllFollowers = ledgerFollowers[Me]
              /\ rAllFollowing = ledgerFollowing[Me]
        /\ recPc \in {"randomPool", "randomCheck"}
           => existingFollowing = ledgerFollowing[Me]

\* C18: the extended network holds each account at most once, so the
\* expansion loop, which visits every entry, expands no account twice.
C18_SeedHasNoDuplicates ==
    \A i, j \in 1..Len(extendedNetwork) :
        i # j => ToLowerCase(extendedNetwork[i]) # ToLowerCase(extendedNetwork[j])

\* clamp(50, 98, round(100 * mutualCount / seedSize * 0.7) + recencyBonus),
\* the bonus granted to the first 20 ranks (rank counted from 0)
ClaimedScore(mutualCount, seedSize, rank) ==
    Min(98, Max(50, RoundDiv(mutualCount * 70, seedSize)
                      + (IF rank < 20 THEN 6 ELSE 0)))

RankOf(address) ==
    (CHOOSE k \in 1..Len(sortedCandidates) :
        sortedCandidates[k].address = address) - 1

\* C19: every entry of a list produced on the network path carries the score
\* clamp(50, 98, round(100 * mutualCount / seedSize * 0.7) + recencyBonus),
\* with recencyBonus 6 for ranks below 20 and 0 otherwise, for every graph
\* of the requester, a requester without mutual connections included.
C19_ScoreIsTheFormula ==
    (RecDone /\ recPath = "network") =>
        \A i \in 1..Len(recommendations) :
            recommendations[i].score =
                ClaimedScore(recommendations[i].mutualFollowers,
                             Len(extendedNetwork),
                             RankOf(recommendations[i].address))

C22_MutualCountAtMostSeedSize ==
    recPc \in {"reverify", "check", "done"} =>
        \A i \in 1..Len(candidateProfiles) :
            candidateProfiles[i].mutualCount <= Len(extendedNetwork)

\* C23: the list that recommendation generation shows never has more than
\* TargetCount (25) entries, on the network path and on the random path.
C23_AtMostTargetCount ==
    RecDone => Len(recommendations) <= TargetCount

\* ------------------------------------------------------- Dashboard claims
DashSettled ==
    /\ ~dashStale
    /\ \A a \in DashAccounts : dashInFlight[a] = 0

\* C24: after the connected account changed and every fetchStats call has
\* come back without an error, the statistics shown are those of the account
\* now connected.
C24_ShownStatsAreOfTheConnectedAccount ==
    (dashSwitches > 0 /\ DashSettled /\ ~dashFailed) =>
        dashShown = dashAccount

\* ------------------------------------------------- WalletProvider claims
WalletSettled ==
    /\ wInitsWaiting = 0
    /\ \A n \in Lens : wInitsRead[n] = 0
    /\ wClosure = [accounts |-> wAccounts, contextAccounts |-> wContextAccounts]

\* C25: after any sequence of accountsChanged and contextAccountsChanged
\* events, once every handler, effect re-run and init() call has completed,
\* isConnected is true exactly when accounts and contextAccounts are both
\* non-empty.
C25_IsConnectedIffBothNonEmpty ==
    (wEvents > 0 /\ WalletSettled) =>
        (wIsConnected <=> BothNonEmpty(wAccounts, wContextAccounts))

\* --------------------------------------------- FollowerManagement claims
\* C26: for every follower count, pressing Load More as long as hasMore is
\* true, with no rejected read, ends with a list that holds each ledger
\* follower of the account exactly once.
C26_LoadMoreLoadsEveryFollowerOnce ==
    (fmPc = "loaded" /\ ~fmHasMore /\ ~fmFailed) =>
        /\ Range(fmFollowers) = Range(ledgerFollowers[Me])
        /\ Len(fmFollowers) = Len(ledgerFollowers[Me])

\* ------------------------------------------------ Followers list claims
\* C28: selectedProfiles is the set of the addresses of the displayed
\* followers whose isSelected flag is true, after any sequence of
\* toggleSelect, toggleSelectAll, page changes, refreshes and bulk
\* operations.
C28_SelectionIsTheFlaggedRows ==
    selSelected = selFlagged \cap Range(selShown)

\* ------------------------------------------------ Following list claims
\* C29: in every state reached by page clicks, refreshes and account
\* changes, 1 <= currentPage <= totalPages, and when no fetch is running,
\* none has failed and the loaded list is non-empty, the displayed page is
\* non-empty.
C29_CurrentPageWithinTotalPages ==
    /\ 1 <= pgCurrentPage
    /\ pgCurrentPage <= pgTotalPages
    /\ (~pgPending /\ ~pgError /\ pgAll # <<>>) => pgFollowing # <<>>

\* ------------------------------------------------------------------ Home
\* src/src/app/page.tsx: currentPage and activeTab of the Home component,
\* driven by the tab buttons, the dashboard cards, 'Back to Overview',
\* 'View Dashboard' and the wallet connecting and disconnecting.
MaxClicks == 10

TabPages == {"dashboard", "stats", "management", "recommendations"}

\* src/src/components/Dashboard.tsx lines 296-306: the targets of the cards
CardTargets ==
    {"followers", "following", "one-way-followers", "one-way-following",
     "recommendations"}

homeFrame == <<coreVars, dashVars, walletVars, loadVars, selVars, pageVars>>

InitHome ==
    /\ LedgerIdle
    /\ AggIdle
    /\ MutIdle
    /\ RecIdle
    /\ StatIdle
    /\ DashIdle
    /\ WalletIdle
    /\ LoadIdle
    /\ SelIdle
    /\ PageIdle
    /\ hmCurrentPage = "home"
    /\ hmActiveTab = "dashboard"
    /\ hmIsConnected = FALSE
    /\ hmClicks = 0

\* lines 75-79: the redirect of the effect, run after every render
Redirect(isConnected, currentPage) ==
    IF ~isConnected /\ currentPage # "home" THEN "home" ELSE currentPage

\* lines 135-194: a tab button, shown while connected on a tab page
TabClick ==
    /\ hmClicks < MaxClicks
    /\ hmIsConnected
    /\ hmCurrentPage \in TabPages
    /\ \E tab \in TabPages :
          /\ hmActiveTab' = tab
          /\ hmCurrentPage' = Redirect(hmIsConnected, tab)
    /\ hmClicks' = hmClicks + 1
    /\ UNCHANGED <<hmIsConnected, homeFrame>>

\* lines 64-73 and 197: handleDashboardNavigation, called by a card of the
\* Dashboard, which is rendered while activeTab is dashboard
DashboardNavigation ==
    /\ hmClicks < MaxClicks
    /\ hmIsConnected
    /\ hmCurrentPage \in TabPages
    /\ hmActiveTab = "dashboard"
    /\ \E target \in CardTargets :
          /\ hmCurrentPage' = Redirect(hmIsConnected, target)
          /\ hmActiveTab' = IF target = "recommendations"
                            THEN "recommendations"
                            ELSE hmActiveTab
    /\ hmClicks' = hmClicks + 1
    /\ UNCHANGED <<hmIsConnected, homeFrame>>

\* lines 203-217: 'Back to Overview', shown on the listing pages
BackToOverview ==
    /\ hmClicks < MaxClicks
    /\ hmIsConnected
    /\ hmCurrentPage \notin TabPages \cup {"home"}
    /\ hmCurrentPage' = Redirect(hmIsConnected, "dashboard")
    /\ hmActiveTab' = "dashboard"
    /\ hmClicks' = hmClicks + 1
    /\ UNCHANGED <<hmIsConnected, homeFrame>>

\* lines 255-261: 'View Dashboard', shown on the home page while connected
ViewDashboard ==
    /\ hmClicks < MaxClicks
    /\ hmIsConnected
    /\ hmCurrentPage = "home"
    /\ hmCurrentPage' = Redirect(hmIsConnected, "dashboard")
    /\ hmClicks' = hmClicks + 1
    /\ UNCHANGED <<hmActiveTab, hmIsConnected, homeFrame>>

\* line 39 and lines 75-79: isConnected of the wallet context changes and
\* the effect runs
ConnectionChanged ==
    /\ hmClicks < MaxClicks
    /\ hmIsConnected' = ~hmIsConnected
    /\ hmCurrentPage' = Redirect(~hmIsConnected, hmCurrentPage)
    /\ hmClicks' = hmClicks + 1
    /\ UNCHANGED <<hmActiveTab, homeFrame>>

NextHome ==
    \/ TabClick
    \/ DashboardNavigation
    \/ BackToOverview
    \/ ViewDashboard
    \/ ConnectionChanged

SpecHome == InitHome /\ [][NextHome]_vars

\* C30: whenever currentPage is one of dashboard, stats, management or
\* recommendations, activeTab equals currentPage.
C30_ActiveTabMatchesCurrentPage ==
    hmCurrentPage \in TabPages => hmActiveTab = hmCurrentPage

\* ------------------------------------------------------ statistics claims
SaveEnded == statPc = "setStats"

TodaysRow == Row(statAddress, StoredDate(today, tz), fresh)

\* C14: the table never holds two rows for one (address, date); a save whose
\* counts equal those of the stored row of the day leaves the table as it
\* was, a save that writes replaces the row of the day and nothing else, and
\* a save that is skipped or fails changes nothing.
C14_SaveIsIdempotentPerDay ==
    /\ \A r1, r2 \in store :
          (r1.address = r2.address /\ r1.date = r2.date) => r1 = r2
    /\ SaveEnded =>
          /\ TodaysRow \in storeBefore => store = storeBefore
          /\ lastWrite = "ok" =>
                store = {r \in storeBefore :
                            ~(r.address = TodaysRow.address
                              /\ r.date = TodaysRow.date)} \cup {TodaysRow}
          /\ lastWrite \in {"skipped", "failed"} => store = storeBefore
          /\ lastWrite = "skipped" => TodaysRow \in storeBefore

\* the counts of the day's stored row are saved again, in the last refresh
\* of the behaviour, while the table holds another row as well
C14_Witness ==
    /\ SaveEnded
    /\ TodaysRow \in storeBefore
    /\ store = storeBefore
    /\ Cardinality(store) >= 2
    /\ refreshes = MaxRefreshes

\* C15: whatever store call fails during a refresh, the refresh ends with
\* the counts it has just aggregated set as the displayed stats.
RefreshEnded ==
    statPc \notin {"dailyChange", "saveRead", "write", "setStats"}

C15_StoreFailureNeverBlocksStats ==
    (RefreshEnded /\ refreshes > 0) =>
        /\ shownStats.followerCount = fresh.followerCount
        /\ shownStats.followingCount = fresh.followingCount
        /\ shownStats.mutualCount = fresh.mutualCount
        /\ statError = "none"

C15_Witness ==
    /\ RefreshEnded
    /\ refreshes > 0
    /\ {"dailyChange", "saveRead", "write"} \subseteq storeFailures
    /\ shownStats.followerCount = fresh.followerCount

====
